---- MODULE Spec2Model ----
(***************************************************************************)
(* The TempusSers contracts as a state machine.                            *)
(*                                                                         *)
(* The repository holds three versions of the contract TempusSers:         *)
(*   "allowlist"  contracts/TempusSers.sol lines 1-99   (proveTicket)      *)
(*   "batch"      contracts/TempusSers.sol lines 115-277 (multi-batch)     *)
(*   "rarity"     unnamed/part_004                       (rarity score)    *)
(* One of them is deployed in Init (variant); storage holds the deployed   *)
(* contract's storage, with the field names of the source.  Every external *)
(* function is an operator from (storage, arguments) to an outcome         *)
(* [err, post, events]: the statements of the function run in source       *)
(* order on a copy of the storage, and the first failing require / assert  *)
(* ends the run with its message.  A transaction commits the copy only     *)
(* when no check failed.                                                   *)
(***************************************************************************)
EXTENDS Integers, Sequences, FiniteSets, TLC

VARIABLES variant, storage, result

vars == <<variant, storage, result>>

(***************************************************************************)
(* Bounds of the model.                                                    *)
(***************************************************************************)
\* MAX_SUPPLY is 3333 (allowlist, batch) and 11111 (rarity) in the source,
\* both odd and not a power of two; the model runs the same code at 3.
MAX_SUPPLY == 3
\* uint32 holds values below 2^32; the model's uint32 holds values below this.
UINT32_RANGE == 8
\* uint256 holds values below 2^256; the model's uint256 holds values below this.
UINT256_RANGE == 16

(***************************************************************************)
(* Program constants.                                                      *)
(***************************************************************************)
\* type(uint8).max
UINT8_MAX == 255
\* batchToTokenId / tokenIdToBatch shift
BATCH_SHIFT == 16

(***************************************************************************)
(* Addresses, strings, hashes.                                             *)
(***************************************************************************)
ZERO_ADDRESS == "0x0"
OWNER == "owner"
Users == {"alice", "bob"}
\* Callers of the owner-only functions.
Senders == {OWNER, "alice"}
\* Callers of the claim functions, which never read msg.sender.
ClaimSenders == {"alice"}
\* Recipients offered to proveTicket, and to redeemTicket.
Recipients == {ZERO_ADDRESS} \cup Users
RedeemRecipients == {ZERO_ADDRESS, "alice"}

\* Strings are sequences of characters; "" is <<>>.
EmptyString == <<>>
URI_NoSlash == <<"i", "p", "f", "s">>
URI_Slash == <<"i", "p", "f", "s", "/">>
URI_Wrong == <<"w", "/">>
CandidateURIs == {EmptyString, URI_NoSlash, URI_Slash, URI_Wrong}
ConstructorURIs == {EmptyString, URI_NoSlash, URI_Slash}

\* keccak256 of a byte string: injective, never the zero word.
ZERO_HASH == <<"bytes32", 0>>
keccak256(bytes) == <<"keccak256", bytes>>

RECURSIVE Xor(_, _)
Xor(a, b) ==
    IF a = 0 THEN b
    ELSE IF b = 0 THEN a
    ELSE (((a % 2) + (b % 2)) % 2) + 2 * Xor(a \div 2, b \div 2)

RECURSIVE BitOr(_, _)
BitOr(a, b) ==
    IF a = 0 THEN b
    ELSE IF b = 0 THEN a
    ELSE (IF (a % 2) + (b % 2) > 0 THEN 1 ELSE 0) + 2 * BitOr(a \div 2, b \div 2)

RECURSIVE Pow2(_)
Pow2(n) == IF n = 0 THEN 1 ELSE 2 * Pow2(n - 1)

(***************************************************************************)
(* Outcomes of a call.                                                     *)
(***************************************************************************)
NoEvents == <<>>
Ok(s, ev) == [err |-> "", post |-> s, events |-> ev]
Revert(s, msg) == [err |-> msg, post |-> s, events |-> NoEvents]
\* a view function's outcome
Value(v) == [err |-> "", value |-> v]
Fail(msg) == [err |-> msg, value |-> 0]

\* The revert messages of the source.
SEED_ALREADY_SET == "TempusSers: Seed already set"
SEED_NOT_SET == "TempusSers: Seed not set yet"
ALREADY_CLAIMED == "TempusSers: Ticket already claimed"
INVALID_TICKET == "TempusSers: Invalid ticket id"
R_INVALID_TICKET == "TempusSer: Invalid ticket id"
INVALID_RECIPIENT == "TempusSers: Invalid recipient"
INVALID_PROOF == "TempusSers: Invalid proof"
INVALID_SIGNATURE == "TempusSers: Invalid signature"
INVALID_RARITY == "TempusSers: Invalid rarity score"
INVALID_PAIR == "TempusSers: Invalid ticket/token pair"
URI_EMPTY == "TempusSers: URI cannot be empty"
INVALID_BATCH == "TempusSers: Invalid batch"
SUPPLY_EXCEEDS == "TempusSers: Supply will exceed maximum"
ALREADY_REVEALED == "TempusSers: Collection already revealed"
COMMITMENT_MISMATCH == "TempusSers: Commitment mismatch"
NOT_REVEALED == "TempusSers: Collection not revealed yet"
\* Ownable, ERC721 and SafeCast.
NOT_OWNER == "Ownable: caller is not the owner"
NEW_OWNER_ZERO == "Ownable: new owner is the zero address"
MINT_TO_ZERO == "ERC721: mint to the zero address"
ALREADY_MINTED == "ERC721: token already minted"
NOT_UINT32 == "SafeCast: value doesn't fit in 32 bits"
NONEXISTENT_TOKEN == "ERC721: operator query for nonexistent token"
NOT_TOKEN_OWNER == "ERC721: transfer caller is not owner nor approved"
TRANSFER_TO_ZERO == "ERC721: transfer to the zero address"
\* Panics: a failed assert is panic 0x01 wherever it fails; the model keeps
\* the place with the code.
PANIC_ASSERT_MINT == "Panic(0x01) in _mintToUser"
PANIC_ASSERT_PERMUTE == "Panic(0x01) in Shuffle.permute"
PANIC_ASSERT_SANITIZE == "Panic(0x01) in sanitizeBaseURI"
PANIC_ARITH == "Panic(0x11)"
PANIC_DIV0 == "Panic(0x12)"

(***************************************************************************)
(* Shuffle.permute (contracts/Shuffle.sol is not among the sources): the   *)
(* design's contract for it.  Both preconditions are assertions; for a     *)
(* fixed (len, seed) the result is a bijection of [0, len), built by       *)
(* cycle walking over the next power of two.                               *)
(***************************************************************************)
RECURSIVE Smear(_)
Smear(x) == IF x = 0 THEN 0 ELSE 2 * Smear(x \div 2) + 1

Mix(idx, seed, mask) ==
    LET a == Xor(idx, seed % (mask + 1))
        b == (a * 5) % (mask + 1)
    IN Xor(b, b \div 2)

RECURSIVE Walk(_, _, _, _)
Walk(idx, len, seed, mask) ==
    LET n == Mix(idx, seed, mask)
    IN IF n < len THEN n ELSE Walk(n, len, seed, mask)

permute(idx, len, seed) ==
    IF ~(len > 0) THEN Fail(PANIC_ASSERT_PERMUTE)
    ELSE IF ~(idx < len) THEN Fail(PANIC_ASSERT_PERMUTE)
    ELSE Value((Walk(idx, len, seed, Smear(len - 1)) + seed) % len)

(***************************************************************************)
(* ERC721 / ERC721Enumerable as the contracts use it.                      *)
(***************************************************************************)
totalSupply(s) == Cardinality({k \in DOMAIN s.tokenOwner : s.tokenOwner[k] # ZERO_ADDRESS})

\* _safeMint(to, tokenId); the recipients of the model are plain accounts.
safeMint(s, to, tokenId) ==
    IF to = ZERO_ADDRESS THEN Revert(s, MINT_TO_ZERO)
    ELSE IF s.tokenOwner[tokenId] # ZERO_ADDRESS THEN Revert(s, ALREADY_MINTED)
    ELSE Ok([s EXCEPT !.tokenOwner[tokenId] = to], NoEvents)

\* transferFrom(sender, to, tokenId) called by sender; no approvals are given
\* in the model, so only the holder of a token moves it.
transferFrom(s, sender, to, tokenId) ==
    IF s.tokenOwner[tokenId] = ZERO_ADDRESS THEN Revert(s, NONEXISTENT_TOKEN)
    ELSE IF sender # s.tokenOwner[tokenId] THEN Revert(s, NOT_TOKEN_OWNER)
    ELSE IF to = ZERO_ADDRESS THEN Revert(s, TRANSFER_TO_ZERO)
    ELSE Ok([s EXCEPT !.tokenOwner[tokenId] = to], NoEvents)

\* Ownable.transferOwnership(newOwner) called by sender.
transferOwnership(s, sender, newOwner) ==
    IF sender # s.owner THEN Revert(s, NOT_OWNER)
    ELSE IF ~(newOwner # ZERO_ADDRESS) THEN Revert(s, NEW_OWNER_ZERO)
    ELSE Ok([s EXCEPT !.owner = newOwner], NoEvents)

(***************************************************************************)
(* Authorizations.                                                         *)
(***************************************************************************)
\* A signature is the signed digest with its signer, or garbage.
NoSignature == [signer |-> ZERO_ADDRESS, digest |-> <<>>]
Sign(signer, digest) == [signer |-> signer, digest |-> digest]
Signers == {OWNER, "alice"}

\* A check of the digest that accepts any signer.
isValidSignatureNowAnySigner(signer, digest, signature) ==
    /\ signature.signer # ZERO_ADDRESS
    /\ signature.digest = digest

\* SignatureChecker.isValidSignatureNow(signer, digest, signature)
isValidSignatureNow(signer, digest, signature) ==
    /\ signature.signer # ZERO_ADDRESS
    /\ signature.signer = signer
    /\ signature.digest = digest

\* The claim list committed in claimlistRoot: ticket i+1 goes to the i-th
\* address, as the tests build it; the list may name a ticket past the supply.
ClaimList == {<<(IF t % 2 = 1 THEN "alice" ELSE "bob"), t>> : t \in 1 .. MAX_SUPPLY + 1}
MerkleRoot(list) == [members |-> list]
\* A proof is the path of one leaf; an empty proof is the path of nothing.
NoProof == [pathOf |-> <<>>]
ProofOf(leaf) == [pathOf |-> leaf]

\* A verification that accepts the path of any member for any leaf.
MerkleVerifyAnyLeaf(proof, root, leaf) ==
    proof.pathOf \in root.members

\* MerkleProof.verify(proof, root, leaf)
MerkleVerify(proof, root, leaf) ==
    /\ proof.pathOf = leaf
    /\ leaf \in root.members

(***************************************************************************)
(* Input domains.                                                          *)
(***************************************************************************)
\* Ticket ids: the 1-based range of the allowlist contract with one id on
\* each side of it; it holds the 0-based range of the other two contracts
\* with the ids past it.
TicketIds == 0 .. MAX_SUPPLY + 1
\* Ticket ids offered to redeemTicket.
RedeemTicketIds == 0 .. MAX_SUPPLY
\* Token ids of the single-collection contracts.
TokenIds == 0 .. MAX_SUPPLY - 1
\* blockhash values delivered to setSeed: the zero word (a block out of the
\* chain's reach), two words with non-zero low bits, and a non-zero word whose
\* low 32 bits are zero.
BlockHashes == {0, 1, 3, UINT32_RANGE}
\* blockhash values delivered to the multi-batch setSeed.
B_BlockHashes == {0, 1, UINT32_RANGE}
\* Rarity scores offered to redeemTicket: two valid ones, the largest among
\* them, and the first invalid one.
RarityScores == {50, UINT8_MAX - 1, UINT8_MAX}

\* uint32(x): the low bits of x.
uint32(x) == x % UINT32_RANGE

\* SafeCast.toUint32(x)
toUint32(x) ==
    IF x >= UINT32_RANGE THEN Fail(NOT_UINT32) ELSE Value(x)

PermanentURI(value, id) == [name |-> "PermanentURI", value |-> value, id |-> id]

(***************************************************************************)
(* The allowlist contract: contracts/TempusSers.sol, lines 13-99.          *)
(***************************************************************************)
A_sanitizeBaseURI(uri) ==
    IF ~(Len(uri) # 0) THEN Fail(URI_EMPTY)
    ELSE IF uri[Len(uri)] # "/" THEN [err |-> "", value |-> uri \o <<"/">>]
    ELSE [err |-> "", value |-> uri]

A_constructor(deployer, baseTokenURI, claimlistRoot) ==
    LET uri == A_sanitizeBaseURI(baseTokenURI)
        s == [owner |-> deployer,
              baseTokenURI |-> uri.value,
              claimlistRoot |-> claimlistRoot,
              shuffleSeed |-> 0,
              claimedTickets |-> [t \in TicketIds |-> FALSE],
              originalMinter |-> [k \in TokenIds |-> ZERO_ADDRESS],
              tokenOwner |-> [k \in TokenIds |-> ZERO_ADDRESS]]
    IN IF uri.err # "" THEN Revert(s, uri.err) ELSE Ok(s, NoEvents)

\* setSeed without the onlyOwner modifier.
A_setSeedAnyCaller(s, sender, blockhash) ==
    IF ~(s.shuffleSeed = 0) THEN Revert(s, SEED_ALREADY_SET)
    ELSE Ok([s EXCEPT !.shuffleSeed = uint32(blockhash)], NoEvents)

\* setSeed without the require of line 41.
A_setSeedNoGuard(s, sender, blockhash) ==
    IF sender # s.owner THEN Revert(s, NOT_OWNER)
    ELSE Ok([s EXCEPT !.shuffleSeed = uint32(blockhash)], NoEvents)

A_setSeed(s, sender, blockhash) ==
    IF sender # s.owner THEN Revert(s, NOT_OWNER)
    ELSE IF ~(s.shuffleSeed = 0) THEN Revert(s, SEED_ALREADY_SET)
    ELSE Ok([s EXCEPT !.shuffleSeed = uint32(blockhash)], NoEvents)

A_tokenURI(s, tokenId) ==
    Value(s.baseTokenURI \o <<ToString(tokenId)>> \o <<".json">>)

\* ticketToTokenId without the require of line 84.
A_ticketToTokenIdNoSeedCheck(s, ticketId) ==
    IF ticketId < 1 THEN Fail(PANIC_ARITH)
    ELSE LET idx == toUint32(ticketId - 1)
         IN IF idx.err # "" THEN idx
            ELSE permute(idx.value, uint32(MAX_SUPPLY), s.shuffleSeed)

A_ticketToTokenId(s, ticketId) ==
    IF ~(s.shuffleSeed # 0) THEN Fail(SEED_NOT_SET)
    ELSE IF ticketId < 1 THEN Fail(PANIC_ARITH)
    ELSE LET idx == toUint32(ticketId - 1)
         IN IF idx.err # "" THEN idx
            ELSE permute(idx.value, uint32(MAX_SUPPLY), s.shuffleSeed)

\* _mintToUser without the assignment of line 71.
A_mintToUserNoOriginalMinter(s, recipient, tokenId) ==
    IF ~(totalSupply(s) < MAX_SUPPLY) THEN Revert(s, PANIC_ASSERT_MINT)
    ELSE LET minted == safeMint(s, recipient, tokenId)
         IN IF minted.err # "" THEN minted
            ELSE Ok(minted.post, <<PermanentURI(A_tokenURI(minted.post, tokenId).value, tokenId)>>)

A_mintToUser(s, recipient, tokenId) ==
    IF ~(totalSupply(s) < MAX_SUPPLY) THEN Revert(s, PANIC_ASSERT_MINT)
    ELSE LET s1 == [s EXCEPT !.originalMinter[tokenId] = recipient]
             minted == safeMint(s1, recipient, tokenId)
         IN IF minted.err # "" THEN minted
            ELSE Ok(minted.post, <<PermanentURI(A_tokenURI(minted.post, tokenId).value, tokenId)>>)

\* proveTicket without the require of line 53.
A_proveTicketNoClaimedCheck(s, recipient, ticketId, proof) ==
    LET leaf == <<recipient, ticketId>>
        s1 == [s EXCEPT !.claimedTickets[ticketId] = TRUE]
        tokenId == A_ticketToTokenId(s1, ticketId)
    IN IF ~(ticketId > 0 /\ ticketId <= MAX_SUPPLY) THEN Revert(s, INVALID_TICKET)
       ELSE IF ~(recipient # ZERO_ADDRESS) THEN Revert(s, INVALID_RECIPIENT)
       ELSE IF ~MerkleVerify(proof, s.claimlistRoot, leaf) THEN Revert(s, INVALID_PROOF)
       ELSE IF tokenId.err # "" THEN Revert(s1, tokenId.err)
       ELSE A_mintToUser(s1, recipient, tokenId.value)

\* proveTicket with the range check of line 54 without its lower bound.
A_proveTicketNoLowerBound(s, recipient, ticketId, proof) ==
    LET leaf == <<recipient, ticketId>>
        s1 == [s EXCEPT !.claimedTickets[ticketId] = TRUE]
        tokenId == A_ticketToTokenId(s1, ticketId)
    IN IF ~(~s.claimedTickets[ticketId]) THEN Revert(s, ALREADY_CLAIMED)
       ELSE IF ~(ticketId <= MAX_SUPPLY) THEN Revert(s, INVALID_TICKET)
       ELSE IF ~(recipient # ZERO_ADDRESS) THEN Revert(s, INVALID_RECIPIENT)
       ELSE IF ~MerkleVerify(proof, s.claimlistRoot, leaf) THEN Revert(s, INVALID_PROOF)
       ELSE IF tokenId.err # "" THEN Revert(s1, tokenId.err)
       ELSE A_mintToUser(s1, recipient, tokenId.value)

A_proveTicket(s, recipient, ticketId, proof) ==
    LET leaf == <<recipient, ticketId>>
        s1 == [s EXCEPT !.claimedTickets[ticketId] = TRUE]
        tokenId == A_ticketToTokenId(s1, ticketId)
    IN IF ~(~s.claimedTickets[ticketId]) THEN Revert(s, ALREADY_CLAIMED)
       ELSE IF ~(ticketId > 0 /\ ticketId <= MAX_SUPPLY) THEN Revert(s, INVALID_TICKET)
       ELSE IF ~(recipient # ZERO_ADDRESS) THEN Revert(s, INVALID_RECIPIENT)
       ELSE IF ~MerkleVerify(proof, s.claimlistRoot, leaf) THEN Revert(s, INVALID_PROOF)
       ELSE IF tokenId.err # "" THEN Revert(s1, tokenId.err)
       ELSE A_mintToUser(s1, recipient, tokenId.value)

(***************************************************************************)
(* The rarity contract: unnamed/part_004.                                  *)
(***************************************************************************)
R_CLAIMSER_TYPEHASH == "ClaimSer(address recipient,uint256 ticketId,uint256 tokenId,uint256 rarity)"

R_constructor(deployer, baseTokenURI) ==
    Ok([owner |-> deployer,
        baseTokenURI |-> baseTokenURI,
        shuffleSeed |-> 0,
        claimedTickets |-> [t \in TicketIds |-> FALSE],
        originalMinter |-> [k \in TokenIds |-> ZERO_ADDRESS],
        rarity |-> [k \in TokenIds |-> 0],
        tokenOwner |-> [k \in TokenIds |-> ZERO_ADDRESS]], NoEvents)

\* setSeed without the require of line 52.
R_setSeedNoGuard(s, sender, blockhash) ==
    IF sender # s.owner THEN Revert(s, NOT_OWNER)
    ELSE Ok([s EXCEPT !.shuffleSeed = uint32(blockhash)], NoEvents)

\* setSeed without the assignment of line 55.
R_setSeedNoStore(s, sender, blockhash) ==
    IF sender # s.owner THEN Revert(s, NOT_OWNER)
    ELSE IF ~(s.shuffleSeed = 0) THEN Revert(s, SEED_ALREADY_SET)
    ELSE Ok(s, NoEvents)

\* blockhash(0) is whatever the chain reports for block 0 at that time.
R_setSeed(s, sender, blockhash) ==
    IF sender # s.owner THEN Revert(s, NOT_OWNER)
    ELSE IF ~(s.shuffleSeed = 0) THEN Revert(s, SEED_ALREADY_SET)
    ELSE Ok([s EXCEPT !.shuffleSeed = uint32(blockhash)], NoEvents)

R_tokenURI(s, tokenId) ==
    Value(s.baseTokenURI \o <<ToString(tokenId)>> \o <<"_r">>
             \o <<ToString(s.rarity[tokenId])>> \o <<".json">>)

R_shuffle(i, l, s) ==
    IF l = 0 THEN Fail(PANIC_DIV0) ELSE Value(Xor(Xor(i, l), s) % l)

R_ticketToTokenId(s, ticketId) ==
    IF ~(s.shuffleSeed # 0) THEN Fail(SEED_NOT_SET)
    ELSE LET i == toUint32(ticketId)
         IN IF i.err # "" THEN i
            ELSE R_shuffle(i.value, uint32(MAX_SUPPLY), s.shuffleSeed)

R_digest(recipient, ticketId, tokenId, rarityScore) ==
    <<R_CLAIMSER_TYPEHASH, recipient, ticketId, tokenId, rarityScore>>

\* _mintToUser without the _safeMint of line 92.
R_mintToUserNoMint(s, recipient, tokenId, rarityScore) ==
    IF ~(totalSupply(s) < MAX_SUPPLY) THEN Revert(s, PANIC_ASSERT_MINT)
    ELSE LET s1 == [s EXCEPT !.originalMinter[tokenId] = recipient]
             s2 == [s1 EXCEPT !.rarity[tokenId] = rarityScore]
         IN Ok(s2, NoEvents)

R_mintToUser(s, recipient, tokenId, rarityScore) ==
    IF ~(totalSupply(s) < MAX_SUPPLY) THEN Revert(s, PANIC_ASSERT_MINT)
    ELSE LET s1 == [s EXCEPT !.originalMinter[tokenId] = recipient]
             s2 == [s1 EXCEPT !.rarity[tokenId] = rarityScore]
         IN safeMint(s2, recipient, tokenId)

\* redeemTicket with the require of line 60 placed after the signature check.
R_redeemTicketClaimCheckLate(s, recipient, ticketId, tokenId, rarityScore, signature) ==
    LET digest == R_digest(recipient, ticketId, tokenId, rarityScore)
        s1 == [s EXCEPT !.claimedTickets[ticketId] = TRUE]
        derived == R_ticketToTokenId(s1, ticketId)
    IN IF ~(ticketId < MAX_SUPPLY) THEN Revert(s, R_INVALID_TICKET)
       ELSE IF ~(rarityScore < UINT8_MAX) THEN Revert(s, INVALID_RARITY)
       ELSE IF ~isValidSignatureNow(s.owner, digest, signature) THEN Revert(s, INVALID_SIGNATURE)
       ELSE IF ~(~s.claimedTickets[ticketId]) THEN Revert(s, ALREADY_CLAIMED)
       ELSE IF derived.err # "" THEN Revert(s1, derived.err)
       ELSE IF ~(tokenId = derived.value) THEN Revert(s1, INVALID_PAIR)
       ELSE R_mintToUser(s1, recipient, tokenId, rarityScore)

\* redeemTicket without the require of line 78.
R_redeemTicketNoPairCheck(s, recipient, ticketId, tokenId, rarityScore, signature) ==
    LET digest == R_digest(recipient, ticketId, tokenId, rarityScore)
        s1 == [s EXCEPT !.claimedTickets[ticketId] = TRUE]
    IN IF ~(~s.claimedTickets[ticketId]) THEN Revert(s, ALREADY_CLAIMED)
       ELSE IF ~(ticketId < MAX_SUPPLY) THEN Revert(s, R_INVALID_TICKET)
       ELSE IF ~(rarityScore < UINT8_MAX) THEN Revert(s, INVALID_RARITY)
       ELSE IF ~isValidSignatureNow(s.owner, digest, signature) THEN Revert(s, INVALID_SIGNATURE)
       ELSE R_mintToUser(s1, recipient, tokenId, rarityScore)

\* redeemTicket with the check of line 78 made before the signature check.
R_redeemTicketPairCheckFirst(s, recipient, ticketId, tokenId, rarityScore, signature) ==
    LET digest == R_digest(recipient, ticketId, tokenId, rarityScore)
        s1 == [s EXCEPT !.claimedTickets[ticketId] = TRUE]
        derived == R_ticketToTokenId(s, ticketId)
    IN IF ~(~s.claimedTickets[ticketId]) THEN Revert(s, ALREADY_CLAIMED)
       ELSE IF ~(ticketId < MAX_SUPPLY) THEN Revert(s, R_INVALID_TICKET)
       ELSE IF ~(rarityScore < UINT8_MAX) THEN Revert(s, INVALID_RARITY)
       ELSE IF derived.err # "" THEN Revert(s, derived.err)
       ELSE IF ~(tokenId = derived.value) THEN Revert(s, INVALID_PAIR)
       ELSE IF ~isValidSignatureNow(s.owner, digest, signature) THEN Revert(s, INVALID_SIGNATURE)
       ELSE R_mintToUser(s1, recipient, tokenId, rarityScore)

\* redeemTicket without the require of line 62.
R_redeemTicketNoRarityCheck(s, recipient, ticketId, tokenId, rarityScore, signature) ==
    LET digest == R_digest(recipient, ticketId, tokenId, rarityScore)
        s1 == [s EXCEPT !.claimedTickets[ticketId] = TRUE]
        derived == R_ticketToTokenId(s1, ticketId)
    IN IF ~(~s.claimedTickets[ticketId]) THEN Revert(s, ALREADY_CLAIMED)
       ELSE IF ~(ticketId < MAX_SUPPLY) THEN Revert(s, R_INVALID_TICKET)
       ELSE IF ~isValidSignatureNow(s.owner, digest, signature) THEN Revert(s, INVALID_SIGNATURE)
       ELSE IF derived.err # "" THEN Revert(s1, derived.err)
       ELSE IF ~(tokenId = derived.value) THEN Revert(s1, INVALID_PAIR)
       ELSE R_mintToUser(s1, recipient, tokenId, rarityScore)

\* redeemTicket with the range check of line 61 off by one.
R_redeemTicketRangeOffByOne(s, recipient, ticketId, tokenId, rarityScore, signature) ==
    LET digest == R_digest(recipient, ticketId, tokenId, rarityScore)
        s1 == [s EXCEPT !.claimedTickets[ticketId] = TRUE]
        derived == R_ticketToTokenId(s1, ticketId)
    IN IF ~(~s.claimedTickets[ticketId]) THEN Revert(s, ALREADY_CLAIMED)
       ELSE IF ~(ticketId <= MAX_SUPPLY) THEN Revert(s, R_INVALID_TICKET)
       ELSE IF ~(rarityScore < UINT8_MAX) THEN Revert(s, INVALID_RARITY)
       ELSE IF ~isValidSignatureNow(s.owner, digest, signature) THEN Revert(s, INVALID_SIGNATURE)
       ELSE IF derived.err # "" THEN Revert(s1, derived.err)
       ELSE IF ~(tokenId = derived.value) THEN Revert(s1, INVALID_PAIR)
       ELSE R_mintToUser(s1, recipient, tokenId, rarityScore)

R_redeemTicket(s, recipient, ticketId, tokenId, rarityScore, signature) ==
    LET digest == R_digest(recipient, ticketId, tokenId, rarityScore)
        s1 == [s EXCEPT !.claimedTickets[ticketId] = TRUE]
        derived == R_ticketToTokenId(s1, ticketId)
    IN IF ~(~s.claimedTickets[ticketId]) THEN Revert(s, ALREADY_CLAIMED)
       ELSE IF ~(ticketId < MAX_SUPPLY) THEN Revert(s, R_INVALID_TICKET)
       ELSE IF ~(rarityScore < UINT8_MAX) THEN Revert(s, INVALID_RARITY)
       ELSE IF ~isValidSignatureNow(s.owner, digest, signature) THEN Revert(s, INVALID_SIGNATURE)
       ELSE IF derived.err # "" THEN Revert(s1, derived.err)
       ELSE IF ~(tokenId = derived.value) THEN Revert(s1, INVALID_PAIR)
       ELSE R_mintToUser(s1, recipient, tokenId, rarityScore)

(***************************************************************************)
(* The multi-batch contract: contracts/TempusSers.sol, lines 128-277.      *)
(***************************************************************************)
B_CLAIMSER_TYPEHASH == "ClaimSer(address recipient,uint256 batch,uint256 ticketId)"

\* Batch indices offered to the multi-batch operations.
BatchIds == {0, 1}
\* Supplies offered to addBatch.
Supplies == {0, 1, 2, MAX_SUPPLY + 1, UINT256_RANGE - 1}
\* Commitments offered to addBatch: the two addBatch refuses, and those of two
\* paths, one without and one with its trailing "/".
Commitments == {ZERO_HASH, keccak256(EmptyString), keccak256(URI_NoSlash), keccak256(URI_Wrong)}

\* batchToTokenId that leaves the batch out of the id.
B_batchToTokenIdNoBatch(batch, tokenId) == tokenId

B_batchToTokenId(batch, tokenId) == BitOr(batch * Pow2(BATCH_SHIFT), tokenId)

B_tokenIdToBatch(tokenId) == tokenId \div Pow2(BATCH_SHIFT)

\* Token ids of the multi-batch contract: the raw ids of the largest supply
\* addBatch is offered, in each batch.
B_TokenIds == {B_batchToTokenId(b, k) : b \in BatchIds, k \in 0 .. MAX_SUPPLY}

B_constructor(deployer) ==
    Ok([owner |-> deployer,
        nextBatch |-> 0,
        batchSupply |-> [b \in BatchIds |-> 0],
        baseTokenURIs |-> [b \in BatchIds |-> EmptyString],
        baseTokenURICommitments |-> [b \in BatchIds |-> ZERO_HASH],
        shuffleSeeds |-> [b \in BatchIds |-> 0],
        claimedTickets |-> [b \in BatchIds |-> [t \in TicketIds |-> FALSE]],
        originalMinter |-> [k \in B_TokenIds |-> ZERO_ADDRESS],
        tokenOwner |-> [k \in B_TokenIds |-> ZERO_ADDRESS]], NoEvents)

RECURSIVE B_sumSupply(_, _)
B_sumSupply(s, n) == IF n = 0 THEN 0 ELSE B_sumSupply(s, n - 1) + s.batchSupply[n - 1]

B_totalAvailableSupply(s) == B_sumSupply(s, s.nextBatch)

B_sanitizeBaseURI(uri) ==
    IF ~(Len(uri) # 0) THEN Fail(PANIC_ASSERT_SANITIZE)
    ELSE IF uri[Len(uri)] # "/" THEN [err |-> "", value |-> uri \o <<"/">>]
    ELSE [err |-> "", value |-> uri]

\* addBatch without the require of line 181.
B_addBatchNoSupplyCheck(s, sender, batch, uriCommitment, supply) ==
    IF sender # s.owner THEN Revert(s, NOT_OWNER)
    ELSE IF ~(s.nextBatch = batch) THEN Revert(s, INVALID_BATCH)
    ELSE IF ~((uriCommitment # ZERO_HASH) /\ (uriCommitment # keccak256(EmptyString)))
         THEN Revert(s, URI_EMPTY)
    ELSE Ok([s EXCEPT !.baseTokenURICommitments[batch] = uriCommitment,
                      !.batchSupply[batch] = supply,
                      !.nextBatch = s.nextBatch + 1], NoEvents)

\* addBatch without the require of line 180.
B_addBatchAnyIndex(s, sender, batch, uriCommitment, supply) ==
    IF sender # s.owner THEN Revert(s, NOT_OWNER)
    ELSE IF ~(B_totalAvailableSupply(s) + supply < UINT256_RANGE) THEN Revert(s, PANIC_ARITH)
    ELSE IF ~((B_totalAvailableSupply(s) + supply) <= MAX_SUPPLY)
         THEN Revert(s, SUPPLY_EXCEEDS)
    ELSE IF ~((uriCommitment # ZERO_HASH) /\ (uriCommitment # keccak256(EmptyString)))
         THEN Revert(s, URI_EMPTY)
    ELSE Ok([s EXCEPT !.baseTokenURICommitments[batch] = uriCommitment,
                      !.batchSupply[batch] = supply,
                      !.nextBatch = s.nextBatch + 1], NoEvents)

\* The sum of line 181 is checked arithmetic: it panics when it leaves uint256.
\* addBatch without the require of line 182.
B_addBatchNoEmptyCheck(s, sender, batch, uriCommitment, supply) ==
    IF sender # s.owner THEN Revert(s, NOT_OWNER)
    ELSE IF ~(s.nextBatch = batch) THEN Revert(s, INVALID_BATCH)
    ELSE IF ~(B_totalAvailableSupply(s) + supply < UINT256_RANGE) THEN Revert(s, PANIC_ARITH)
    ELSE IF ~((B_totalAvailableSupply(s) + supply) <= MAX_SUPPLY)
         THEN Revert(s, SUPPLY_EXCEEDS)
    ELSE Ok([s EXCEPT !.baseTokenURICommitments[batch] = uriCommitment,
                      !.batchSupply[batch] = supply,
                      !.nextBatch = s.nextBatch + 1], NoEvents)

B_addBatch(s, sender, batch, uriCommitment, supply) ==
    IF sender # s.owner THEN Revert(s, NOT_OWNER)
    ELSE IF ~(s.nextBatch = batch) THEN Revert(s, INVALID_BATCH)
    ELSE IF ~(B_totalAvailableSupply(s) + supply < UINT256_RANGE) THEN Revert(s, PANIC_ARITH)
    ELSE IF ~((B_totalAvailableSupply(s) + supply) <= MAX_SUPPLY)
         THEN Revert(s, SUPPLY_EXCEEDS)
    ELSE IF ~((uriCommitment # ZERO_HASH) /\ (uriCommitment # keccak256(EmptyString)))
         THEN Revert(s, URI_EMPTY)
    ELSE Ok([s EXCEPT !.baseTokenURICommitments[batch] = uriCommitment,
                      !.batchSupply[batch] = supply,
                      !.nextBatch = s.nextBatch + 1], NoEvents)

\* revealBatch that stores the path as given, without sanitizeBaseURI.
B_revealBatchNoSanitize(s, sender, batch, baseTokenURI) ==
    IF sender # s.owner THEN Revert(s, NOT_OWNER)
    ELSE IF ~(s.shuffleSeeds[batch] # 0) THEN Revert(s, SEED_NOT_SET)
    ELSE IF ~(Len(s.baseTokenURIs[batch]) = 0) THEN Revert(s, ALREADY_REVEALED)
    ELSE IF ~(keccak256(baseTokenURI) = s.baseTokenURICommitments[batch])
         THEN Revert(s, COMMITMENT_MISMATCH)
    ELSE Ok([s EXCEPT !.baseTokenURIs[batch] = baseTokenURI], NoEvents)

\* revealBatch without the require of line 193.
B_revealBatchNoCommitmentCheck(s, sender, batch, baseTokenURI) ==
    LET uri == B_sanitizeBaseURI(baseTokenURI)
    IN IF sender # s.owner THEN Revert(s, NOT_OWNER)
       ELSE IF ~(s.shuffleSeeds[batch] # 0) THEN Revert(s, SEED_NOT_SET)
       ELSE IF ~(Len(s.baseTokenURIs[batch]) = 0) THEN Revert(s, ALREADY_REVEALED)
       ELSE IF uri.err # "" THEN Revert(s, uri.err)
       ELSE Ok([s EXCEPT !.baseTokenURIs[batch] = uri.value], NoEvents)

\* revealBatch without the require of line 191.
B_revealBatchNoSeedCheck(s, sender, batch, baseTokenURI) ==
    LET uri == B_sanitizeBaseURI(baseTokenURI)
    IN IF sender # s.owner THEN Revert(s, NOT_OWNER)
       ELSE IF ~(Len(s.baseTokenURIs[batch]) = 0) THEN Revert(s, ALREADY_REVEALED)
       ELSE IF ~(keccak256(baseTokenURI) = s.baseTokenURICommitments[batch])
            THEN Revert(s, COMMITMENT_MISMATCH)
       ELSE IF uri.err # "" THEN Revert(s, uri.err)
       ELSE Ok([s EXCEPT !.baseTokenURIs[batch] = uri.value], NoEvents)

B_revealBatch(s, sender, batch, baseTokenURI) ==
    LET uri == B_sanitizeBaseURI(baseTokenURI)
    IN IF sender # s.owner THEN Revert(s, NOT_OWNER)
       ELSE IF ~(s.shuffleSeeds[batch] # 0) THEN Revert(s, SEED_NOT_SET)
       ELSE IF ~(Len(s.baseTokenURIs[batch]) = 0) THEN Revert(s, ALREADY_REVEALED)
       ELSE IF ~(keccak256(baseTokenURI) = s.baseTokenURICommitments[batch])
            THEN Revert(s, COMMITMENT_MISMATCH)
       ELSE IF uri.err # "" THEN Revert(s, uri.err)
       ELSE Ok([s EXCEPT !.baseTokenURIs[batch] = uri.value], NoEvents)

\* setSeed that writes the seed of every batch.
B_setSeedEveryBatch(s, sender, batch, blockhash) ==
    IF sender # s.owner THEN Revert(s, NOT_OWNER)
    ELSE IF ~(s.shuffleSeeds[batch] = 0) THEN Revert(s, SEED_ALREADY_SET)
    ELSE Ok([s EXCEPT !.shuffleSeeds = [b \in DOMAIN s.shuffleSeeds |-> uint32(blockhash)]], NoEvents)

B_setSeed(s, sender, batch, blockhash) ==
    IF sender # s.owner THEN Revert(s, NOT_OWNER)
    ELSE IF ~(s.shuffleSeeds[batch] = 0) THEN Revert(s, SEED_ALREADY_SET)
    ELSE Ok([s EXCEPT !.shuffleSeeds[batch] = uint32(blockhash)], NoEvents)

B_tokenURI(s, tokenId) ==
    LET batch == B_tokenIdToBatch(tokenId)
        base == IF batch \in BatchIds THEN s.baseTokenURIs[batch] ELSE EmptyString
    IN IF ~(Len(base) # 0) THEN Fail(NOT_REVEALED)
       ELSE Value(base \o <<ToString(tokenId)>> \o <<".json">>)

\* ticketToTokenId that permutes over MAX_SUPPLY instead of the batch's supply.
B_ticketToTokenIdMaxSupply(s, batch, ticketId) ==
    IF ~(s.shuffleSeeds[batch] # 0) THEN Fail(SEED_NOT_SET)
    ELSE LET idx == toUint32(ticketId)
             rawTokenId == permute(idx.value, uint32(MAX_SUPPLY), s.shuffleSeeds[batch])
         IN IF idx.err # "" THEN idx
            ELSE IF rawTokenId.err # "" THEN rawTokenId
            ELSE Value(B_batchToTokenId(batch, rawTokenId.value))

B_ticketToTokenId(s, batch, ticketId) ==
    IF ~(s.shuffleSeeds[batch] # 0) THEN Fail(SEED_NOT_SET)
    ELSE LET idx == toUint32(ticketId)
             rawTokenId == permute(idx.value, uint32(s.batchSupply[batch]), s.shuffleSeeds[batch])
         IN IF idx.err # "" THEN idx
            ELSE IF rawTokenId.err # "" THEN rawTokenId
            ELSE Value(B_batchToTokenId(batch, rawTokenId.value))

B_digest(recipient, batch, ticketId) == <<B_CLAIMSER_TYPEHASH, recipient, batch, ticketId>>

B_mintToUser(s, recipient, tokenId) ==
    IF ~(totalSupply(s) < MAX_SUPPLY) THEN Revert(s, PANIC_ASSERT_MINT)
    ELSE LET s1 == [s EXCEPT !.originalMinter[tokenId] = recipient]
             minted == safeMint(s1, recipient, tokenId)
             uri == B_tokenURI(minted.post, tokenId)
         IN IF minted.err # "" THEN minted
            ELSE IF uri.err # "" THEN Revert(minted.post, uri.err)
            ELSE Ok(minted.post, <<PermanentURI(uri.value, tokenId)>>)

\* redeemTicket checking the signature against the deployer, not owner().
B_redeemTicketDeployerSigner(s, recipient, batch, ticketId, signature) ==
    LET digest == B_digest(recipient, batch, ticketId)
        s1 == [s EXCEPT !.claimedTickets[batch][ticketId] = TRUE]
        tokenId == B_ticketToTokenId(s1, batch, ticketId)
    IN IF ~(Len(s.baseTokenURIs[batch]) # 0) THEN Revert(s, NOT_REVEALED)
       ELSE IF ~(~s.claimedTickets[batch][ticketId]) THEN Revert(s, ALREADY_CLAIMED)
       ELSE IF ~(ticketId < MAX_SUPPLY) THEN Revert(s, INVALID_TICKET)
       ELSE IF ~isValidSignatureNow(OWNER, digest, signature) THEN Revert(s, INVALID_SIGNATURE)
       ELSE IF tokenId.err # "" THEN Revert(s1, tokenId.err)
       ELSE B_mintToUser(s1, recipient, tokenId.value)

\* redeemTicket with the require of line 211 placed after the signature check.
B_redeemTicketRevealCheckLate(s, recipient, batch, ticketId, signature) ==
    LET digest == B_digest(recipient, batch, ticketId)
        s1 == [s EXCEPT !.claimedTickets[batch][ticketId] = TRUE]
        tokenId == B_ticketToTokenId(s1, batch, ticketId)
    IN IF ~(~s.claimedTickets[batch][ticketId]) THEN Revert(s, ALREADY_CLAIMED)
       ELSE IF ~(ticketId < MAX_SUPPLY) THEN Revert(s, INVALID_TICKET)
       ELSE IF ~isValidSignatureNow(s.owner, digest, signature) THEN Revert(s, INVALID_SIGNATURE)
       ELSE IF ~(Len(s.baseTokenURIs[batch]) # 0) THEN Revert(s, NOT_REVEALED)
       ELSE IF tokenId.err # "" THEN Revert(s1, tokenId.err)
       ELSE B_mintToUser(s1, recipient, tokenId.value)

\* redeemTicket without the write of line 221.
B_redeemTicketNoClaimWrite(s, recipient, batch, ticketId, signature) ==
    LET digest == B_digest(recipient, batch, ticketId)
        tokenId == B_ticketToTokenId(s, batch, ticketId)
    IN IF ~(Len(s.baseTokenURIs[batch]) # 0) THEN Revert(s, NOT_REVEALED)
       ELSE IF ~(~s.claimedTickets[batch][ticketId]) THEN Revert(s, ALREADY_CLAIMED)
       ELSE IF ~(ticketId < MAX_SUPPLY) THEN Revert(s, INVALID_TICKET)
       ELSE IF ~isValidSignatureNow(s.owner, digest, signature) THEN Revert(s, INVALID_SIGNATURE)
       ELSE IF tokenId.err # "" THEN Revert(s, tokenId.err)
       ELSE B_mintToUser(s, recipient, tokenId.value)

B_redeemTicket(s, recipient, batch, ticketId, signature) ==
    LET digest == B_digest(recipient, batch, ticketId)
        s1 == [s EXCEPT !.claimedTickets[batch][ticketId] = TRUE]
        tokenId == B_ticketToTokenId(s1, batch, ticketId)
    IN IF ~(Len(s.baseTokenURIs[batch]) # 0) THEN Revert(s, NOT_REVEALED)
       ELSE IF ~(~s.claimedTickets[batch][ticketId]) THEN Revert(s, ALREADY_CLAIMED)
       ELSE IF ~(ticketId < MAX_SUPPLY) THEN Revert(s, INVALID_TICKET)
       ELSE IF ~isValidSignatureNow(s.owner, digest, signature) THEN Revert(s, INVALID_SIGNATURE)
       ELSE IF tokenId.err # "" THEN Revert(s1, tokenId.err)
       ELSE B_mintToUser(s1, recipient, tokenId.value)

(***************************************************************************)
(* Inputs offered to the claim operations.                                 *)
(***************************************************************************)
\* Proofs offered with proveTicket(recipient, ticketId, .): none, the path a
\* caller builds for the pair, and the path of every member of the list.
A_Proofs(recipient, ticketId) ==
    {NoProof, ProofOf(<<recipient, ticketId>>)} \cup {ProofOf(l) : l \in ClaimList}

OtherTicket(ticketId) == (ticketId + 1) % (MAX_SUPPLY + 1)
OtherToken(tokenId) == (tokenId + 1) % MAX_SUPPLY
OtherRarity(rarityScore) == IF rarityScore = 50 THEN 51 ELSE 50

\* Signatures offered with a redeemTicket call: none, the call's own fields
\* signed by each signer, and the owner's signature over the call with one
\* field replaced.
R_Signatures(recipient, ticketId, tokenId, rarityScore) ==
    {NoSignature}
    \cup {Sign(a, R_digest(recipient, ticketId, tokenId, rarityScore)) : a \in Signers}
    \cup {Sign(OWNER, R_digest(r, ticketId, tokenId, rarityScore)) : r \in Users}
    \cup {Sign(OWNER, R_digest(recipient, OtherTicket(ticketId), tokenId, rarityScore)),
          Sign(OWNER, R_digest(recipient, ticketId, OtherToken(tokenId), rarityScore)),
          Sign(OWNER, R_digest(recipient, ticketId, tokenId, OtherRarity(rarityScore)))}

B_Signatures(recipient, batch, ticketId) ==
    {NoSignature}
    \cup {Sign(a, B_digest(recipient, batch, ticketId)) : a \in Signers}
    \cup {Sign(OWNER, B_digest(r, batch, ticketId)) : r \in Users}
    \cup {Sign(OWNER, B_digest(recipient, b, ticketId)) : b \in BatchIds}
    \cup {Sign(OWNER, B_digest(recipient, batch, OtherTicket(ticketId)))}

(***************************************************************************)
(* Claims whose recipient is a contract.  _safeMint writes the owner of    *)
(* the token and then calls onERC721Received of the recipient, which may   *)
(* call the claim operation again before the outer call has returned.  A   *)
(* plan is what the receivers do: its head is the call made from inside    *)
(* the callback of the current mint, its tail the plan of the calls nested *)
(* in that one; a call with catch = TRUE is made in a try statement.  An   *)
(* empty plan is a recipient that accepts the token and calls nothing.     *)
(***************************************************************************)
MaxNesting == 2

\* The outcome of a call made without entering a callback.
Unnested(out) == [err |-> out.err, post |-> out.post, events |-> out.events, nested |-> <<>>]

\* onERC721Received making the call whose outcome is inner from the storage s:
\* a failure of the call is swallowed by try/catch, else it fails the mint.
onERC721Received(s, batch, ticketId, catch, inner) ==
    LET entry == [batch |-> batch, ticketId |-> ticketId, err |-> inner.err]
    IN IF inner.err = ""
       THEN [err |-> "", post |-> inner.post, events |-> inner.events,
             nested |-> <<entry>> \o inner.nested]
       ELSE [err |-> IF catch THEN "" ELSE inner.err, post |-> s, events |-> NoEvents,
             nested |-> <<entry>> \o inner.nested]

RECURSIVE A_proveTicketNested(_, _, _)
RECURSIVE A_mintToUserNested(_, _, _, _)
RECURSIVE R_redeemTicketNested(_, _, _)
RECURSIVE R_mintToUserNested(_, _, _, _, _)
RECURSIVE B_redeemTicketNested(_, _, _)
RECURSIVE B_mintToUserNested(_, _, _, _)

\* _mintToUser of the allowlist contract, lines 66-75, with the callback.
A_mintToUserNested(s, recipient, tokenId, plan) ==
    IF ~(totalSupply(s) < MAX_SUPPLY) THEN Unnested(Revert(s, PANIC_ASSERT_MINT))
    ELSE LET s1 == [s EXCEPT !.originalMinter[tokenId] = recipient]
             minted == safeMint(s1, recipient, tokenId)
             received == IF plan = <<>> THEN Unnested(minted)
                         ELSE onERC721Received(minted.post, 0, Head(plan).ticketId, Head(plan).catch,
                                               A_proveTicketNested(minted.post, Head(plan), Tail(plan)))
         IN IF minted.err # "" THEN Unnested(minted)
            ELSE IF received.err # "" THEN [received EXCEPT !.post = s]
            ELSE [received EXCEPT
                    !.events = @ \o <<PermanentURI(A_tokenURI(received.post, tokenId).value, tokenId)>>]

\* proveTicket writing the claimed flag after the mint has returned.
A_proveTicketNestedLateFlag(s, call, plan) ==
    LET recipient == call.recipient
        ticketId == call.ticketId
        leaf == <<recipient, ticketId>>
        tokenId == A_ticketToTokenId(s, ticketId)
        out == A_mintToUserNested(s, recipient, tokenId.value, plan)
    IN IF ~(~s.claimedTickets[ticketId]) THEN Unnested(Revert(s, ALREADY_CLAIMED))
       ELSE IF ~(ticketId > 0 /\ ticketId <= MAX_SUPPLY) THEN Unnested(Revert(s, INVALID_TICKET))
       ELSE IF ~(recipient # ZERO_ADDRESS) THEN Unnested(Revert(s, INVALID_RECIPIENT))
       ELSE IF ~MerkleVerify(call.proof, s.claimlistRoot, leaf) THEN Unnested(Revert(s, INVALID_PROOF))
       ELSE IF tokenId.err # "" THEN Unnested(Revert(s, tokenId.err))
       ELSE IF out.err # "" THEN out
       ELSE [out EXCEPT !.post = [out.post EXCEPT !.claimedTickets[ticketId] = TRUE]]

\* proveTicket, lines 47-64, with the callback of its mint.
A_proveTicketNested(s, call, plan) ==
    LET recipient == call.recipient
        ticketId == call.ticketId
        leaf == <<recipient, ticketId>>
        s1 == [s EXCEPT !.claimedTickets[ticketId] = TRUE]
        tokenId == A_ticketToTokenId(s1, ticketId)
    IN IF ~(~s.claimedTickets[ticketId]) THEN Unnested(Revert(s, ALREADY_CLAIMED))
       ELSE IF ~(ticketId > 0 /\ ticketId <= MAX_SUPPLY) THEN Unnested(Revert(s, INVALID_TICKET))
       ELSE IF ~(recipient # ZERO_ADDRESS) THEN Unnested(Revert(s, INVALID_RECIPIENT))
       ELSE IF ~MerkleVerify(call.proof, s.claimlistRoot, leaf) THEN Unnested(Revert(s, INVALID_PROOF))
       ELSE IF tokenId.err # "" THEN Unnested(Revert(s1, tokenId.err))
       ELSE A_mintToUserNested(s1, recipient, tokenId.value, plan)

\* _mintToUser of the rarity contract with the callback.
R_mintToUserNested(s, recipient, tokenId, rarityScore, plan) ==
    IF ~(totalSupply(s) < MAX_SUPPLY) THEN Unnested(Revert(s, PANIC_ASSERT_MINT))
    ELSE LET s1 == [s EXCEPT !.originalMinter[tokenId] = recipient]
             s2 == [s1 EXCEPT !.rarity[tokenId] = rarityScore]
             minted == safeMint(s2, recipient, tokenId)
             received == IF plan = <<>> THEN Unnested(minted)
                         ELSE onERC721Received(minted.post, 0, Head(plan).ticketId, Head(plan).catch,
                                               R_redeemTicketNested(minted.post, Head(plan), Tail(plan)))
         IN IF minted.err # "" THEN Unnested(minted)
            ELSE IF received.err # "" THEN [received EXCEPT !.post = s]
            ELSE received

\* redeemTicket of the rarity contract with the callback of its mint.
R_redeemTicketNested(s, call, plan) ==
    LET recipient == call.recipient
        ticketId == call.ticketId
        digest == R_digest(recipient, ticketId, call.tokenId, call.rarityScore)
        s1 == [s EXCEPT !.claimedTickets[ticketId] = TRUE]
        derived == R_ticketToTokenId(s1, ticketId)
    IN IF ~(~s.claimedTickets[ticketId]) THEN Unnested(Revert(s, ALREADY_CLAIMED))
       ELSE IF ~(ticketId < MAX_SUPPLY) THEN Unnested(Revert(s, R_INVALID_TICKET))
       ELSE IF ~(call.rarityScore < UINT8_MAX) THEN Unnested(Revert(s, INVALID_RARITY))
       ELSE IF ~isValidSignatureNow(s.owner, digest, call.signature)
            THEN Unnested(Revert(s, INVALID_SIGNATURE))
       ELSE IF derived.err # "" THEN Unnested(Revert(s1, derived.err))
       ELSE IF ~(call.tokenId = derived.value) THEN Unnested(Revert(s1, INVALID_PAIR))
       ELSE R_mintToUserNested(s1, recipient, call.tokenId, call.rarityScore, plan)

\* _mintToUser of the multi-batch contract, lines 229-238, with the callback.
B_mintToUserNested(s, recipient, tokenId, plan) ==
    IF ~(totalSupply(s) < MAX_SUPPLY) THEN Unnested(Revert(s, PANIC_ASSERT_MINT))
    ELSE LET s1 == [s EXCEPT !.originalMinter[tokenId] = recipient]
             minted == safeMint(s1, recipient, tokenId)
             received == IF plan = <<>> THEN Unnested(minted)
                         ELSE onERC721Received(minted.post, Head(plan).batch, Head(plan).ticketId,
                                               Head(plan).catch,
                                               B_redeemTicketNested(minted.post, Head(plan), Tail(plan)))
             uri == B_tokenURI(received.post, tokenId)
         IN IF minted.err # "" THEN Unnested(minted)
            ELSE IF received.err # "" THEN [received EXCEPT !.post = s]
            ELSE IF uri.err # "" THEN [received EXCEPT !.err = uri.err, !.post = s, !.events = NoEvents]
            ELSE [received EXCEPT !.events = @ \o <<PermanentURI(uri.value, tokenId)>>]

\* redeemTicket, lines 205-227, with the callback of its mint.
B_redeemTicketNested(s, call, plan) ==
    LET recipient == call.recipient
        batch == call.batch
        ticketId == call.ticketId
        digest == B_digest(recipient, batch, ticketId)
        s1 == [s EXCEPT !.claimedTickets[batch][ticketId] = TRUE]
        tokenId == B_ticketToTokenId(s1, batch, ticketId)
    IN IF ~(Len(s.baseTokenURIs[batch]) # 0) THEN Unnested(Revert(s, NOT_REVEALED))
       ELSE IF ~(~s.claimedTickets[batch][ticketId]) THEN Unnested(Revert(s, ALREADY_CLAIMED))
       ELSE IF ~(ticketId < MAX_SUPPLY) THEN Unnested(Revert(s, INVALID_TICKET))
       ELSE IF ~isValidSignatureNow(s.owner, digest, call.signature)
            THEN Unnested(Revert(s, INVALID_SIGNATURE))
       ELSE IF tokenId.err # "" THEN Unnested(Revert(s1, tokenId.err))
       ELSE B_mintToUserNested(s1, recipient, tokenId.value, plan)

(***************************************************************************)
(* Transactions.                                                           *)
(***************************************************************************)
\* A call that keeps what it wrote before the check that failed.
ExecuteNoRollback(op, sender, batch, ticketId, out) ==
    /\ storage' = out.post
    /\ result' = [op |-> op, err |-> out.err, sender |-> sender, batch |-> batch,
                  ticketId |-> ticketId,
                  events |-> IF out.err = "" THEN out.events ELSE NoEvents]
    /\ UNCHANGED variant

\* A call either commits the storage its statements wrote or, when a check
\* failed, reverts to the storage it started from and emits nothing.
Execute(op, sender, batch, ticketId, out) ==
    /\ storage' = IF out.err = "" THEN out.post ELSE storage
    /\ result' = [op |-> op, err |-> out.err, sender |-> sender, batch |-> batch,
                  ticketId |-> ticketId,
                  events |-> IF out.err = "" THEN out.events ELSE NoEvents]
    /\ UNCHANGED variant

Deployed(v, out) ==
    /\ out.err = ""
    /\ variant = v
    /\ storage = out.post
    /\ result = [op |-> "constructor", err |-> "", sender |-> OWNER, batch |-> 0,
                 ticketId |-> 0, events |-> NoEvents]

Init ==
    \/ \E u \in ConstructorURIs : Deployed("allowlist", A_constructor(OWNER, u, MerkleRoot(ClaimList)))
    \/ \E u \in ConstructorURIs : Deployed("rarity", R_constructor(OWNER, u))
    \/ Deployed("batch", B_constructor(OWNER))

A_SetSeed ==
    /\ variant = "allowlist"
    /\ \E sender \in Senders, h \in BlockHashes :
          Execute("setSeed", sender, 0, 0, A_setSeed(storage, sender, h))

A_ProveTicket ==
    /\ variant = "allowlist"
    /\ \E sender \in ClaimSenders, recipient \in Recipients, ticketId \in TicketIds :
          \E proof \in A_Proofs(recipient, ticketId) :
             Execute("proveTicket", sender, 0, ticketId,
                     A_proveTicket(storage, recipient, ticketId, proof))

R_SetSeed ==
    /\ variant = "rarity"
    /\ \E sender \in Senders, h \in BlockHashes :
          Execute("setSeed", sender, 0, 0, R_setSeed(storage, sender, h))

R_RedeemTicket ==
    /\ variant = "rarity"
    /\ \E sender \in ClaimSenders, recipient \in RedeemRecipients, ticketId \in RedeemTicketIds,
          tokenId \in TokenIds, rarityScore \in RarityScores :
          \E signature \in R_Signatures(recipient, ticketId, tokenId, rarityScore) :
             Execute("redeemTicket", sender, 0, ticketId,
                     R_redeemTicket(storage, recipient, ticketId, tokenId, rarityScore, signature))

B_AddBatch ==
    /\ variant = "batch"
    /\ \E sender \in Senders, batch \in BatchIds, c \in Commitments, supply \in Supplies :
          Execute("addBatch", sender, batch, 0, B_addBatch(storage, sender, batch, c, supply))

B_RevealBatch ==
    /\ variant = "batch"
    /\ \E sender \in Senders, batch \in BatchIds, u \in CandidateURIs :
          Execute("revealBatch", sender, batch, 0, B_revealBatch(storage, sender, batch, u))

B_SetSeed ==
    /\ variant = "batch"
    /\ \E sender \in Senders, batch \in BatchIds, h \in B_BlockHashes :
          Execute("setSeed", sender, batch, 0, B_setSeed(storage, sender, batch, h))

B_RedeemTicket ==
    /\ variant = "batch"
    /\ \E sender \in ClaimSenders, recipient \in RedeemRecipients, batch \in BatchIds,
          ticketId \in RedeemTicketIds :
          \E signature \in B_Signatures(recipient, batch, ticketId) :
             Execute("redeemTicket", sender, batch, ticketId,
                     B_redeemTicket(storage, recipient, batch, ticketId, signature))

\* A transfer of a token, inherited from ERC721 by all three contracts.
TransferSenders == {"alice"}
TransferRecipients == {"bob"}

Transfer ==
    \E sender \in TransferSenders, to \in TransferRecipients, tokenId \in DOMAIN storage.tokenOwner :
       Execute("transferFrom", sender, 0, 0, transferFrom(storage, sender, to, tokenId))

Next ==
    \/ Transfer
    \/ A_SetSeed
    \/ A_ProveTicket
    \/ R_SetSeed
    \/ R_RedeemTicket
    \/ B_AddBatch
    \/ B_RevealBatch
    \/ B_SetSeed
    \/ B_RedeemTicket

Spec == Init /\ [][Next]_vars

\* The contracts with their ownership handed over: Ownable.transferOwnership,
\* inherited by all three, beside the operations above.
NewOwners == {ZERO_ADDRESS, OWNER, "alice"}

TransferOwnership ==
    \E sender \in Senders, newOwner \in NewOwners :
       Execute("transferOwnership", sender, 0, 0, transferOwnership(storage, sender, newOwner))

OwnershipNext ==
    \/ TransferOwnership
    \/ Next

OwnershipSpec == Init /\ [][OwnershipNext]_vars

(***************************************************************************)
(* Claims made to contracts that claim again from inside the callback.     *)
(***************************************************************************)
\* Every plan of at most MaxNesting calls.
Plans(calls) == UNION {[1 .. n -> calls] : n \in 0 .. MaxNesting}

\* The calls a receiver makes: claims that carry a valid authorization.
A_NestedCalls ==
    {[recipient |-> l[1], ticketId |-> l[2], proof |-> ProofOf(l), catch |-> c] :
        l \in ClaimList, c \in BOOLEAN}
R_NestedCalls(s) ==
    {[recipient |-> "alice", ticketId |-> t, tokenId |-> R_ticketToTokenId(s, t).value,
      rarityScore |-> 50, catch |-> c,
      signature |-> Sign(OWNER, R_digest("alice", t, R_ticketToTokenId(s, t).value, 50))] :
        t \in TokenIds, c \in BOOLEAN}
B_NestedTicketIds == {0, 1}
B_NestedCalls ==
    {[recipient |-> "alice", batch |-> b, ticketId |-> t, catch |-> c,
      signature |-> Sign(OWNER, B_digest("alice", b, t))] :
        b \in BatchIds, t \in B_NestedTicketIds, c \in BOOLEAN}

\* The outcome of a transaction with the outcomes of the calls nested in it.
ExecuteNested(op, sender, batch, ticketId, out) ==
    /\ storage' = IF out.err = "" THEN out.post ELSE storage
    /\ result' = [op |-> op, err |-> out.err, sender |-> sender, batch |-> batch,
                  ticketId |-> ticketId,
                  events |-> IF out.err = "" THEN out.events ELSE NoEvents,
                  nested |-> out.nested]
    /\ UNCHANGED variant

A_ProveTicketNested ==
    /\ variant = "allowlist"
    /\ \E sender \in ClaimSenders, call \in A_NestedCalls, plan \in Plans(A_NestedCalls) :
          /\ ~call.catch
          /\ ExecuteNested("proveTicket", sender, 0, call.ticketId,
                           A_proveTicketNested(storage, call, plan))

R_RedeemTicketNested ==
    /\ variant = "rarity"
    /\ \E sender \in ClaimSenders, call \in R_NestedCalls(storage),
          plan \in Plans(R_NestedCalls(storage)) :
          /\ ~call.catch
          /\ ExecuteNested("redeemTicket", sender, 0, call.ticketId,
                           R_redeemTicketNested(storage, call, plan))

B_RedeemTicketNested ==
    /\ variant = "batch"
    /\ \E sender \in ClaimSenders, call \in B_NestedCalls, plan \in Plans(B_NestedCalls) :
          /\ ~call.catch
          /\ ExecuteNested("redeemTicket", sender, call.batch, call.ticketId,
                           B_redeemTicketNested(storage, call, plan))

\* The owner's operations and the claims; a claim with an empty plan is a
\* claim to a plain account.
ReentrancyNext ==
    \/ A_SetSeed
    \/ R_SetSeed
    \/ B_AddBatch
    \/ B_RevealBatch
    \/ B_SetSeed
    \/ A_ProveTicketNested
    \/ R_RedeemTicketNested
    \/ B_RedeemTicketNested

ReentrancySpec == Init /\ [][ReentrancyNext]_vars

(***************************************************************************)
(* The randomness beacons: contracts/RandomnessBeacon.sol, a consumer of   *)
(* the Chainlink VRF, and contracts/RandomnessBeaconMock.sol.  The storage *)
(* record also holds what the beacon reads from its surroundings: its LINK *)
(* balance, the requests the coordinator has not answered yet and the      *)
(* timestamp of the current block.                                         *)
(***************************************************************************)
MaxRequests == 3
MaxLink == 4
MaxTimestamp == 3
Fees == {1, 2}
Randomness == {0, 1, 2}

VRF_COORDINATOR == "vrfCoordinator"
INSUFFICIENT_LINK == "Insufficient LINK balance"
ONLY_COORDINATOR == "Only VRFCoordinator can fulfill"

RB_constructor(deployer, fee) ==
    Ok([owner |-> deployer,
        fee |-> fee,
        lastTimestamp |-> 0,
        lastResult |-> 0,
        linkBalance |-> 0,
        nonce |-> 0,
        outstanding |-> {},
        blockTimestamp |-> 1], NoEvents)

\* requestRandomness(): the request of VRFConsumerBase pays the fee to the
\* coordinator, which records the request, and counts the nonce up; the
\* request id is derived from the nonce.
RB_requestRandomness(s, sender) ==
    IF sender # s.owner THEN Revert(s, NOT_OWNER)
    ELSE IF ~(s.linkBalance >= s.fee) THEN Revert(s, INSUFFICIENT_LINK)
    ELSE Ok([s EXCEPT !.linkBalance = @ - s.fee,
                      !.outstanding = @ \cup {s.nonce},
                      !.nonce = @ + 1], NoEvents)

\* fulfillRandomness that stores the result without the timestamp.
RB_fulfillRandomnessResultOnly(s, requestId, randomness) ==
    [s EXCEPT !.lastResult = randomness]

\* fulfillRandomness(requestId, randomness)
RB_fulfillRandomness(s, requestId, randomness) ==
    [s EXCEPT !.lastResult = randomness, !.lastTimestamp = s.blockTimestamp]

\* rawFulfillRandomness of VRFConsumerBase, the entry point of the callback;
\* the coordinator forgets a request it has answered.
RB_rawFulfillRandomness(s, sender, requestId, randomness) ==
    IF sender # VRF_COORDINATOR THEN Revert(s, ONLY_COORDINATOR)
    ELSE Ok([RB_fulfillRandomness(s, requestId, randomness) EXCEPT !.outstanding = @ \ {requestId}],
            NoEvents)

RB_withdrawLink(s, sender) ==
    IF sender # s.owner THEN Revert(s, NOT_OWNER)
    ELSE Ok([s EXCEPT !.linkBalance = 0], NoEvents)

RBM_constructor(deployer) ==
    Ok([owner |-> deployer, lastTimestamp |-> 0, lastResult |-> 0, blockTimestamp |-> 1], NoEvents)

RBM_setResult(s, sender, res) ==
    IF sender # s.owner THEN Revert(s, NOT_OWNER)
    ELSE Ok([s EXCEPT !.lastResult = res, !.lastTimestamp = s.blockTimestamp], NoEvents)

BeaconExecute(op, sender, requestId, randomness, out) ==
    /\ storage' = IF out.err = "" THEN out.post ELSE storage
    /\ result' = [op |-> op, err |-> out.err, sender |-> sender, batch |-> 0, ticketId |-> 0,
                  events |-> NoEvents, requestId |-> requestId, randomness |-> randomness]
    /\ UNCHANGED variant

BeaconInit ==
    \/ \E fee \in Fees :
          /\ variant = "beacon"
          /\ storage = RB_constructor(OWNER, fee).post
          /\ result = [op |-> "constructor", err |-> "", sender |-> OWNER, batch |-> 0,
                       ticketId |-> 0, events |-> NoEvents, requestId |-> 0, randomness |-> 0]
    \/ /\ variant = "beaconMock"
       /\ storage = RBM_constructor(OWNER).post
       /\ result = [op |-> "constructor", err |-> "", sender |-> OWNER, batch |-> 0,
                    ticketId |-> 0, events |-> NoEvents, requestId |-> 0, randomness |-> 0]

\* A later block.
NextBlock ==
    /\ variant \in {"beacon", "beaconMock"}
    /\ storage.blockTimestamp < MaxTimestamp
    /\ BeaconExecute("nextBlock", ZERO_ADDRESS, 0, 0,
                     Ok([storage EXCEPT !.blockTimestamp = @ + 1], NoEvents))

\* A transfer of one LINK to the beacon, by anyone.
RB_LinkTransfer ==
    /\ variant = "beacon"
    /\ storage.linkBalance < MaxLink
    /\ \E sender \in Senders :
          BeaconExecute("LINK.transfer", sender, 0, 0,
                        Ok([storage EXCEPT !.linkBalance = @ + 1], NoEvents))

RB_RequestRandomness ==
    /\ variant = "beacon"
    /\ storage.nonce < MaxRequests
    /\ \E sender \in Senders :
          BeaconExecute("requestRandomness", sender, storage.nonce, 0,
                        RB_requestRandomness(storage, sender))

\* The coordinator answers any of the requests it holds, in any order;
\* another account may call the entry point with any request id.
RB_RawFulfillRandomness ==
    /\ variant = "beacon"
    /\ \E sender \in {VRF_COORDINATOR, "alice"}, requestId \in 0 .. MaxRequests - 1,
          randomness \in Randomness :
          /\ sender = VRF_COORDINATOR => requestId \in storage.outstanding
          /\ BeaconExecute("rawFulfillRandomness", sender, requestId, randomness,
                           RB_rawFulfillRandomness(storage, sender, requestId, randomness))

RB_WithdrawLink ==
    /\ variant = "beacon"
    /\ \E sender \in Senders :
          BeaconExecute("withdrawLink", sender, 0, 0, RB_withdrawLink(storage, sender))

RBM_SetResult ==
    /\ variant = "beaconMock"
    /\ \E sender \in Senders, res \in Randomness :
          BeaconExecute("setResult", sender, 0, res, RBM_setResult(storage, sender, res))

BeaconNext ==
    \/ NextBlock
    \/ RB_LinkTransfer
    \/ RB_RequestRandomness
    \/ RB_RawFulfillRandomness
    \/ RB_WithdrawLink
    \/ RBM_SetResult

BeaconSpec == BeaconInit /\ [][BeaconNext]_vars

(***************************************************************************)
(* Observations of the deployed contract.                                  *)
(***************************************************************************)
ClaimOps == {"proveTicket", "redeemTicket"}
SingleVariants == {"allowlist", "rarity"}

\* The (batch, ticket) pairs whose claimedTickets flag is set; the
\* single-collection contracts are batch 0.
ClaimedTickets(v, s) ==
    IF v = "batch"
    THEN {p \in BatchIds \X TicketIds : s.claimedTickets[p[1]][p[2]]}
    ELSE {p \in {0} \X TicketIds : s.claimedTickets[p[2]]}

\* The batches of the deployed contract and the seed of each.
Batches(v) == IF v = "batch" THEN BatchIds ELSE {0}
Seed(v, s, batch) == IF v = "batch" THEN s.shuffleSeeds[batch] ELSE s.shuffleSeed

\* The tokens that exist.
Minted(s) == {k \in DOMAIN s.tokenOwner : s.tokenOwner[k] # ZERO_ADDRESS}

\* The ticket ids the design declares valid.
ValidTickets(v) == IF v = "allowlist" THEN 1 .. MAX_SUPPLY ELSE 0 .. MAX_SUPPLY - 1

\* ticketToTokenId and setSeed of the deployed contract.
ticketToTokenId(v, s, batch, ticketId) ==
    IF v = "allowlist" THEN A_ticketToTokenId(s, ticketId)
    ELSE IF v = "rarity" THEN R_ticketToTokenId(s, ticketId)
    ELSE B_ticketToTokenId(s, batch, ticketId)

setSeed(v, s, sender, batch, blockhash) ==
    IF v = "allowlist" THEN A_setSeed(s, sender, blockhash)
    ELSE IF v = "rarity" THEN R_setSeed(s, sender, blockhash)
    ELSE B_setSeed(s, sender, batch, blockhash)

\* The outcomes of every claim call the model offers in storage s.
ClaimOutcomes(v, s) ==
    IF v = "allowlist"
    THEN UNION {{A_proveTicket(s, x[1], x[2], p) : p \in A_Proofs(x[1], x[2])} :
                x \in Recipients \X TicketIds}
    ELSE IF v = "rarity"
    THEN UNION {{R_redeemTicket(s, x[1], x[2], x[3], x[4], g) :
                    g \in R_Signatures(x[1], x[2], x[3], x[4])} :
                x \in RedeemRecipients \X RedeemTicketIds \X TokenIds \X RarityScores}
    ELSE UNION {{B_redeemTicket(s, x[1], x[2], x[3], g) : g \in B_Signatures(x[1], x[2], x[3])} :
                x \in RedeemRecipients \X BatchIds \X RedeemTicketIds}

(***************************************************************************)
(* C1: a ticket is redeemed at most once.  No step clears a claimedTickets *)
(* flag, and a claim succeeds only on a ticket whose flag was clear, which *)
(* it sets and no other.                                                   *)
(***************************************************************************)
C1_ExactlyOnceRedemption ==
    [][/\ ClaimedTickets(variant, storage) \subseteq ClaimedTickets(variant, storage')
       /\ (result'.op \in ClaimOps /\ result'.err = "") =>
             /\ <<result'.batch, result'.ticketId>> \notin ClaimedTickets(variant, storage)
             /\ ClaimedTickets(variant, storage')
                   = ClaimedTickets(variant, storage) \cup {<<result'.batch, result'.ticketId>>}]_vars

\* A claim of a ticket that is already claimed has been rejected.
C1_Witness ==
    /\ result.op \in ClaimOps
    /\ result.err = ALREADY_CLAIMED
    /\ <<result.batch, result.ticketId>> \in ClaimedTickets(variant, storage)

(***************************************************************************)
(* C2: once the seed of a single-collection contract is non-zero,          *)
(* ticketToTokenId succeeds on every valid ticket and maps the valid       *)
(* tickets one-to-one onto [0, MAX_SUPPLY).                                *)
(***************************************************************************)
C2_TicketToTokenIdBijection ==
    (variant \in SingleVariants /\ storage.shuffleSeed # 0) =>
        LET f(t) == ticketToTokenId(variant, storage, 0, t)
        IN /\ \A t \in ValidTickets(variant) : f(t).err = "" /\ f(t).value \in TokenIds
           /\ \A t, u \in ValidTickets(variant) : f(t).value = f(u).value => t = u
           /\ \A k \in TokenIds : \E t \in ValidTickets(variant) : f(t).value = k

(***************************************************************************)
(* C3: the number of tokens equals the number of claimed tickets in every  *)
(* state; a successful claim marks one ticket and mints one token that did *)
(* not exist; a token that exists is never minted again.                   *)
(***************************************************************************)
C3_SupplyEqualsClaimed ==
    [][/\ totalSupply(storage) = Cardinality(ClaimedTickets(variant, storage))
       /\ totalSupply(storage') = Cardinality(ClaimedTickets(variant, storage'))
       /\ \A k \in Minted(storage) :
             /\ k \in Minted(storage')
             /\ result'.op \in ClaimOps => storage'.tokenOwner[k] = storage.tokenOwner[k]
       /\ (result'.op \in ClaimOps /\ result'.err = "") =>
             /\ Cardinality(Minted(storage') \ Minted(storage)) = 1
             /\ Cardinality(ClaimedTickets(variant, storage') \ ClaimedTickets(variant, storage)) = 1
       /\ ~(result'.op \in ClaimOps /\ result'.err = "") =>
             Minted(storage') = Minted(storage)]_vars

\* Two tickets have been claimed and two tokens exist.
C3_Witness ==
    /\ result.op \in ClaimOps
    /\ result.err = ""
    /\ totalSupply(storage) = 2
    /\ Cardinality(ClaimedTickets(variant, storage)) = 2

C5_SeedOneShot ==
    [][\A b \in Batches(variant) :
          Seed(variant, storage, b) # 0 =>
             /\ Seed(variant, storage', b) = Seed(variant, storage, b)
             /\ \A sender \in Senders, h \in BlockHashes :
                   LET out == setSeed(variant, storage, sender, b, h)
                   IN /\ out.err # ""
                      /\ sender = storage.owner => out.err = SEED_ALREADY_SET
             /\ (result'.op = "setSeed" /\ result'.batch = b) =>
                   result'.err \in {SEED_ALREADY_SET, NOT_OWNER}]_vars

\* The owner has called setSeed on a seed that was set and was rejected.
C5_Witness ==
    /\ result.op = "setSeed"
    /\ result.sender = storage.owner
    /\ result.err = SEED_ALREADY_SET
    /\ Seed(variant, storage, result.batch) # 0

\* The outcomes, in storage s, of the well-formed claims of batch b that carry
\* the authorization the design asks for: a valid ticket, a recipient, and the
\* list's own proof or the owner's signature over the call's fields.
AuthorizedClaimOutcomes(v, s, b) ==
    IF v = "allowlist"
    THEN {A_proveTicket(s, l[1], l[2], ProofOf(l)) :
             l \in {m \in s.claimlistRoot.members : m[2] \in ValidTickets(v)}}
    ELSE IF v = "rarity"
    THEN {R_redeemTicket(s, x[1], x[2], x[3], 50, Sign(s.owner, R_digest(x[1], x[2], x[3], 50))) :
             x \in Users \X ValidTickets(v) \X TokenIds}
    ELSE {B_redeemTicket(s, x[1], b, x[2], Sign(s.owner, B_digest(x[1], b, x[2]))) :
             x \in Users \X ValidTickets(v)}

\* The token ids of batch b.
TokensOfBatch(v, b) ==
    IF v = "batch" THEN {k \in B_TokenIds : B_tokenIdToBatch(k) = b} ELSE TokenIds

(***************************************************************************)
(* C6 as stated: after every successful setSeed the seed is Set, so the    *)
(* owner's next setSeed fails with "Seed already set" and ticketToTokenId  *)
(* no longer fails with "Seed not set yet".                                *)
(***************************************************************************)
C6_SetSeedAlwaysSets ==
    (result.op = "setSeed" /\ result.err = "") =>
        /\ Seed(variant, storage, result.batch) # 0
        /\ \A h \in BlockHashes :
              setSeed(variant, storage, storage.owner, result.batch, h).err = SEED_ALREADY_SET
        /\ \A t \in TicketIds :
              ticketToTokenId(variant, storage, result.batch, t).err # SEED_NOT_SET

(***************************************************************************)
(* C6 amended: on an unset seed the owner's setSeed succeeds for every     *)
(* delivered value and stores its low 32 bits.  When they are non-zero the *)
(* seed is Set: a second setSeed fails with "Seed already set" and         *)
(* ticketToTokenId no longer fails with "Seed not set yet".  When they are *)
(* zero the seed is still Unset: setSeed succeeds again and                *)
(* ticketToTokenId still fails with "Seed not set yet".                    *)
(***************************************************************************)
C6_SetSeedSetsNonZero ==
    \A b \in Batches(variant), h \in BlockHashes :
        Seed(variant, storage, b) = 0 =>
            LET out == setSeed(variant, storage, storage.owner, b, h)
                next == {setSeed(variant, out.post, storage.owner, b, g) : g \in BlockHashes}
                ids == {ticketToTokenId(variant, out.post, b, t) : t \in TicketIds}
            IN /\ out.err = ""
               /\ Seed(variant, out.post, b) = h % UINT32_RANGE
               /\ h % UINT32_RANGE # 0 =>
                     /\ \A n \in next : n.err = SEED_ALREADY_SET
                     /\ \A i \in ids : i.err # SEED_NOT_SET
               /\ h % UINT32_RANGE = 0 =>
                     /\ \A n \in next : n.err = ""
                     /\ \A i \in ids : i.err = SEED_NOT_SET

\* setSeed has succeeded and left a non-zero seed.
C6_Witness ==
    /\ result.op = "setSeed"
    /\ result.err = ""
    /\ Seed(variant, storage, result.batch) # 0

(***************************************************************************)
(* C7 as stated: while a seed is unset, ticketToTokenId fails with "Seed   *)
(* not set yet" for every ticket, every well-formed claim carrying a valid *)
(* authorization fails with "Seed not set yet", and no ticket is claimed   *)
(* and no originalMinter is recorded.                                      *)
(***************************************************************************)
C7_UnsetSeedFailsSeedNotSet ==
    \A b \in Batches(variant) :
        Seed(variant, storage, b) = 0 =>
            /\ \A t \in TicketIds : ticketToTokenId(variant, storage, b, t).err = SEED_NOT_SET
            /\ \A out \in AuthorizedClaimOutcomes(variant, storage, b) : out.err = SEED_NOT_SET
            /\ \A t \in TicketIds : <<b, t>> \notin ClaimedTickets(variant, storage)
            /\ \A k \in TokensOfBatch(variant, b) : storage.originalMinter[k] = ZERO_ADDRESS

(***************************************************************************)
(* C7 amended: while a seed is unset, ticketToTokenId fails with "Seed not *)
(* set yet" for every ticket, no ticket is claimed and no originalMinter   *)
(* is recorded.  A well-formed claim carrying a valid authorization fails  *)
(* with "Seed not set yet" in the single-collection contracts; in the      *)
(* multi-batch contract the batch cannot have been revealed and the claim  *)
(* fails with "Collection not revealed yet".                               *)
(***************************************************************************)
C7_UnsetSeedBlocksClaims ==
    \A b \in Batches(variant) :
        Seed(variant, storage, b) = 0 =>
            /\ \A t \in TicketIds : ticketToTokenId(variant, storage, b, t).err = SEED_NOT_SET
            /\ \A out \in AuthorizedClaimOutcomes(variant, storage, b) :
                  out.err = IF variant = "batch" THEN NOT_REVEALED ELSE SEED_NOT_SET
            /\ variant = "batch" => Len(storage.baseTokenURIs[b]) = 0
            /\ \A t \in TicketIds : <<b, t>> \notin ClaimedTickets(variant, storage)
            /\ \A k \in TokensOfBatch(variant, b) : storage.originalMinter[k] = ZERO_ADDRESS

\* A claim has failed with "Seed not set yet" and its ticket is unclaimed.
C7_Witness ==
    /\ result.op \in ClaimOps
    /\ result.err = SEED_NOT_SET
    /\ Seed(variant, storage, result.batch) = 0
    /\ <<result.batch, result.ticketId>> \notin ClaimedTickets(variant, storage)

C9_AttestationSoundness ==
    /\ variant = "rarity" =>
          \A x \in RedeemRecipients \X RedeemTicketIds \X TokenIds \X RarityScores :
             \A g \in R_Signatures(x[1], x[2], x[3], x[4]) :
                LET exact == Sign(storage.owner, <<R_CLAIMSER_TYPEHASH, x[1], x[2], x[3], x[4]>>)
                    out == R_redeemTicket(storage, x[1], x[2], x[3], x[4], g)
                    signed == R_redeemTicket(storage, x[1], x[2], x[3], x[4], exact)
                IN /\ out.err = "" => g = exact
                   /\ g # exact =>
                         \/ out.err = INVALID_SIGNATURE
                         \/ /\ out.err \in {ALREADY_CLAIMED, R_INVALID_TICKET, INVALID_RARITY}
                            /\ signed.err = out.err
    /\ variant = "batch" =>
          \A x \in RedeemRecipients \X BatchIds \X RedeemTicketIds :
             \A g \in B_Signatures(x[1], x[2], x[3]) :
                LET exact == Sign(storage.owner, <<B_CLAIMSER_TYPEHASH, x[1], x[2], x[3]>>)
                    out == B_redeemTicket(storage, x[1], x[2], x[3], g)
                    signed == B_redeemTicket(storage, x[1], x[2], x[3], exact)
                IN /\ out.err = "" => g = exact
                   /\ g # exact =>
                         \/ out.err = INVALID_SIGNATURE
                         \/ /\ out.err \in {NOT_REVEALED, ALREADY_CLAIMED, INVALID_TICKET}
                            /\ signed.err = out.err

\* A redeemTicket call has failed the signature check.
C9_Witness ==
    /\ result.op = "redeemTicket"
    /\ result.err = INVALID_SIGNATURE

(***************************************************************************)
(* C10: proveTicket succeeds only for a (recipient, ticket) pair of the    *)
(* claim list, proved by its own path.  On an unclaimed ticket of the      *)
(* valid range the zero recipient fails with "Invalid recipient" and       *)
(* every other pair that is not proved a member fails with "Invalid        *)
(* proof".  The originalMinter of a token is the recipient the list binds  *)
(* to the ticket the token came from.                                      *)
(***************************************************************************)
C10_AllowlistSoundness ==
    variant = "allowlist" =>
        /\ \A r \in Recipients, t \in TicketIds :
              \A p \in A_Proofs(r, t) :
                 LET out == A_proveTicket(storage, r, t, p)
                     proved == <<r, t>> \in storage.claimlistRoot.members /\ p = ProofOf(<<r, t>>)
                     open == ~storage.claimedTickets[t] /\ t \in ValidTickets(variant)
                 IN /\ out.err = "" => (proved /\ r # ZERO_ADDRESS /\ open)
                    /\ (open /\ r = ZERO_ADDRESS) => out.err = INVALID_RECIPIENT
                    /\ (open /\ r # ZERO_ADDRESS /\ ~proved) => out.err = INVALID_PROOF
        /\ \A k \in Minted(storage) :
              \E t \in ValidTickets(variant) :
                 /\ storage.claimedTickets[t]
                 /\ A_ticketToTokenId(storage, t).value = k
                 /\ <<storage.originalMinter[k], t>> \in storage.claimlistRoot.members

\* A proveTicket call has failed the proof check.
C10_Witness ==
    /\ result.op = "proveTicket"
    /\ result.err = INVALID_PROOF

\* Whether batch b is revealed; the single-collection contracts of the
\* sources have their base path from construction.
Revealed(v, s, b) == IF v = "batch" THEN Len(s.baseTokenURIs[b]) # 0 ELSE TRUE

\* The tickets of batch b that the permutation of the contract indexes.
IndexedTickets(v, s, b) ==
    IF v = "batch" THEN {t \in TicketIds : t < s.batchSupply[b]} ELSE ValidTickets(v)

\* The outcomes, in storage s, of the claims of the unclaimed tickets of
\* batch b with the authorization the operator issues for them: the list's
\* own proof, or the owner's signature over the call, the call naming the
\* token that ticketToTokenId derives.
IssuedClaimOutcomes(v, s, b) ==
    IF v = "allowlist"
    THEN {A_proveTicket(s, l[1], l[2], ProofOf(l)) :
             l \in {m \in s.claimlistRoot.members :
                       m[2] \in ValidTickets(v) /\ ~s.claimedTickets[m[2]]}}
    ELSE IF v = "rarity"
    THEN {R_redeemTicket(s, x[1], x[2], R_ticketToTokenId(s, x[2]).value, 50,
                         Sign(s.owner, R_digest(x[1], x[2], R_ticketToTokenId(s, x[2]).value, 50))) :
             x \in {y \in Users \X ValidTickets(v) : ~s.claimedTickets[y[2]]}}
    ELSE {B_redeemTicket(s, x[1], b, x[2], Sign(s.owner, B_digest(x[1], b, x[2]))) :
             x \in {y \in Users \X IndexedTickets(v, s, b) : ~s.claimedTickets[b][y[2]]}}

(***************************************************************************)
(* C11: once the seed is set, and the batch revealed where the contract    *)
(* asks for it, the claim of every unclaimed ticket of the valid range     *)
(* that carries its authorization succeeds, whatever was claimed before.   *)
(***************************************************************************)
C11_FullSupplyExhaustion ==
    \A b \in Batches(variant) :
        (Seed(variant, storage, b) # 0 /\ Revealed(variant, storage, b)) =>
            \A out \in IssuedClaimOutcomes(variant, storage, b) : out.err = ""

(***************************************************************************)
(* C12: in the allowlist contract proveTicket succeeds only for            *)
(* 1 <= ticketId <= MAX_SUPPLY; for every other ticket id it fails with    *)
(* "Invalid ticket id", whatever the recipient and the proof, and writes   *)
(* no claimedTickets flag.                                                 *)
(***************************************************************************)
C12_AllowlistRange ==
    variant = "allowlist" =>
        /\ \A r \in Recipients, t \in TicketIds :
              \A p \in A_Proofs(r, t) :
                 LET out == A_proveTicket(storage, r, t, p)
                     inRange == 1 <= t /\ t <= MAX_SUPPLY
                 IN /\ out.err = "" => inRange
                    /\ ~inRange =>
                          /\ out.err = INVALID_TICKET
                          /\ out.post.claimedTickets = storage.claimedTickets
        /\ \A t \in TicketIds : storage.claimedTickets[t] => (1 <= t /\ t <= MAX_SUPPLY)
        /\ (result.op = "proveTicket" /\ ~(1 <= result.ticketId /\ result.ticketId <= MAX_SUPPLY)) =>
              result.err = INVALID_TICKET

\* proveTicket has rejected ticket MAX_SUPPLY + 1, which the list names.
C12_Witness ==
    /\ result.op = "proveTicket"
    /\ result.ticketId = MAX_SUPPLY + 1
    /\ result.err = INVALID_TICKET
    /\ \E r \in Users : <<r, result.ticketId>> \in storage.claimlistRoot.members

(***************************************************************************)
(* C13: no claim whose ticket passes the range check of its operation      *)
(* fails a precondition of the permutation the operation invokes (index <  *)
(* length and length > 0).                                                 *)
(***************************************************************************)
C13_IndexConvention ==
    \A out \in ClaimOutcomes(variant, storage) :
        out.err \notin {PANIC_ASSERT_PERMUTE, PANIC_DIV0, PANIC_ARITH, NOT_UINT32}

\* A path with the trailing separator appended if it is missing.
Normalized(u) == IF u[Len(u)] = "/" THEN u ELSE u \o <<"/">>

\* The base path of batch b is empty, or the normalized form of a path whose
\* hash is the commitment of b.
BoundToCommitment(s, b) ==
    \/ s.baseTokenURIs[b] = EmptyString
    \/ \E u \in CandidateURIs \ {EmptyString} :
          /\ keccak256(u) = s.baseTokenURICommitments[b]
          /\ s.baseTokenURIs[b] = Normalized(u)

(***************************************************************************)
(* C14: the owner's revealBatch fails with "Seed not set yet" if the seed  *)
(* of the batch is unset, otherwise with "Collection already revealed" if  *)
(* the base path is set, otherwise with "Commitment mismatch" if the hash  *)
(* of the path differs from the commitment; otherwise it succeeds and      *)
(* stores the path, with a trailing "/" appended if missing, and nothing   *)
(* else.                                                                   *)
(***************************************************************************)
C14_RevealGating ==
    variant = "batch" =>
        \A b \in BatchIds, u \in CandidateURIs :
            LET out == B_revealBatch(storage, storage.owner, b, u)
            IN IF storage.shuffleSeeds[b] = 0 THEN out.err = SEED_NOT_SET
               ELSE IF storage.baseTokenURIs[b] # EmptyString THEN out.err = ALREADY_REVEALED
               ELSE IF keccak256(u) # storage.baseTokenURICommitments[b]
                    THEN out.err = COMMITMENT_MISMATCH
               ELSE /\ out.err = ""
                    /\ out.post = [storage EXCEPT !.baseTokenURIs[b] = Normalized(u)]

\* A path committed without its trailing "/" has been revealed and stored
\* with it.
C14_Witness ==
    /\ variant = "batch"
    /\ result.op = "revealBatch"
    /\ result.err = ""
    /\ storage.baseTokenURICommitments[result.batch] = keccak256(URI_NoSlash)
    /\ storage.baseTokenURIs[result.batch] = URI_Slash

(***************************************************************************)
(* C15: after every step the base path of each batch is empty or the      *)
(* normalized form of a path whose hash is the batch's commitment; a base  *)
(* path that is set never changes, nor does its commitment, and every      *)
(* revealBatch of its batch fails.                                         *)
(***************************************************************************)
C15_RevealOneShot ==
    [][variant = "batch" =>
          \A b \in BatchIds :
             /\ BoundToCommitment(storage', b)
             /\ storage.baseTokenURIs[b] # EmptyString =>
                   /\ storage'.baseTokenURIs[b] = storage.baseTokenURIs[b]
                   /\ storage'.baseTokenURICommitments[b] = storage.baseTokenURICommitments[b]
                   /\ \A sender \in Senders, u \in CandidateURIs :
                         B_revealBatch(storage, sender, b, u).err # ""]_vars

\* A second revealBatch of a revealed batch has been rejected.
C15_Witness ==
    /\ variant = "batch"
    /\ result.op = "revealBatch"
    /\ result.err = ALREADY_REVEALED
    /\ storage.baseTokenURIs[result.batch] # EmptyString

(***************************************************************************)
(* C16: in the multi-batch contract a batch with a base path has a         *)
(* non-zero seed, and a redeemTicket succeeds only from a state in which   *)
(* the seed of its batch is set and its base path revealed.                *)
(***************************************************************************)
C16_SeedRevealClaimOrder ==
    [][variant = "batch" =>
          /\ \A b \in BatchIds :
                /\ storage.baseTokenURIs[b] # EmptyString => storage.shuffleSeeds[b] # 0
                /\ storage'.baseTokenURIs[b] # EmptyString => storage'.shuffleSeeds[b] # 0
                /\ (storage'.baseTokenURIs[b] # EmptyString /\ storage.baseTokenURIs[b] = EmptyString) =>
                      storage.shuffleSeeds[b] # 0
          /\ (result'.op = "redeemTicket" /\ result'.err = "") =>
                /\ storage.shuffleSeeds[result'.batch] # 0
                /\ storage.baseTokenURIs[result'.batch] # EmptyString]_vars

\* A ticket of a batch has been redeemed.
C16_Witness ==
    /\ variant = "batch"
    /\ result.op = "redeemTicket"
    /\ result.err = ""
    /\ storage.shuffleSeeds[result.batch] # 0
    /\ storage.baseTokenURIs[result.batch] # EmptyString

(***************************************************************************)
(* C17: while a batch has no base path, every redeemTicket for it fails    *)
(* with "Collection not revealed yet", whatever the ticket, the recipient  *)
(* and the signature and whether or not the seed is set, tokenURI fails    *)
(* with the same message for every token id of the batch, and no ticket of *)
(* the batch is claimed.                                                   *)
(***************************************************************************)
C17_UnrevealedGating ==
    variant = "batch" =>
        \A b \in BatchIds :
            storage.baseTokenURIs[b] = EmptyString =>
                /\ \A r \in RedeemRecipients, t \in RedeemTicketIds :
                      \A g \in B_Signatures(r, b, t) :
                         B_redeemTicket(storage, r, b, t, g).err = NOT_REVEALED
                /\ \A k \in TokensOfBatch(variant, b) : B_tokenURI(storage, k).err = NOT_REVEALED
                /\ \A t \in TicketIds : ~storage.claimedTickets[b][t]

\* With the seed set and the batch unrevealed, a redeemTicket has been
\* rejected and its ticket is unclaimed.
C17_Witness ==
    /\ variant = "batch"
    /\ result.op = "redeemTicket"
    /\ result.err = NOT_REVEALED
    /\ storage.shuffleSeeds[result.batch] # 0
    /\ storage.baseTokenURIs[result.batch] = EmptyString
    /\ ~storage.claimedTickets[result.batch][result.ticketId]

(***************************************************************************)
(* C18: in every state, every claim call that names a claimed ticket (and  *)
(* its batch) fails with "Ticket already claimed", whatever the recipient, *)
(* token id, rarity, signature or proof.                                   *)
(***************************************************************************)
C18_ReplayDeterminism ==
    /\ variant = "allowlist" =>
          \A r \in Recipients, t \in TicketIds :
             storage.claimedTickets[t] =>
                \A p \in A_Proofs(r, t) : A_proveTicket(storage, r, t, p).err = ALREADY_CLAIMED
    /\ variant = "rarity" =>
          \A x \in RedeemRecipients \X RedeemTicketIds \X TokenIds \X RarityScores :
             storage.claimedTickets[x[2]] =>
                \A g \in R_Signatures(x[1], x[2], x[3], x[4]) :
                   R_redeemTicket(storage, x[1], x[2], x[3], x[4], g).err = ALREADY_CLAIMED
    /\ variant = "batch" =>
          \A x \in RedeemRecipients \X BatchIds \X RedeemTicketIds :
             storage.claimedTickets[x[2]][x[3]] =>
                \A g \in B_Signatures(x[1], x[2], x[3]) :
                   B_redeemTicket(storage, x[1], x[2], x[3], g).err = ALREADY_CLAIMED
    /\ (result.op \in ClaimOps /\ <<result.batch, result.ticketId>> \in ClaimedTickets(variant, storage)) =>
          result.err \in {"", ALREADY_CLAIMED}

\* The token of a claimed ticket has been moved to another holder and a later
\* claim of the ticket has been rejected.
C18_Witness ==
    /\ result.op \in ClaimOps
    /\ result.err = ALREADY_CLAIMED
    /\ <<result.batch, result.ticketId>> \in ClaimedTickets(variant, storage)
    /\ LET k == ticketToTokenId(variant, storage, result.batch, result.ticketId).value
       IN storage.tokenOwner[k] # storage.originalMinter[k]

(***************************************************************************)
(* C19: originalMinter[tokenId] is the zero address exactly for the token  *)
(* ids that do not exist; it is set, to the recipient the token is minted  *)
(* to, only by a successful claim, and once set it never changes, under    *)
(* transfers of the token and further claims.                              *)
(***************************************************************************)
C19_Provenance ==
    [][\A k \in DOMAIN storage.tokenOwner :
          /\ (storage'.originalMinter[k] = ZERO_ADDRESS) <=> (storage'.tokenOwner[k] = ZERO_ADDRESS)
          /\ storage.originalMinter[k] # ZERO_ADDRESS =>
                storage'.originalMinter[k] = storage.originalMinter[k]
          /\ (storage.originalMinter[k] = ZERO_ADDRESS /\ storage'.originalMinter[k] # ZERO_ADDRESS) =>
                /\ result'.op \in ClaimOps
                /\ result'.err = ""
                /\ storage.tokenOwner[k] = ZERO_ADDRESS
                /\ storage'.tokenOwner[k] = storage'.originalMinter[k]]_vars

\* A token has been transferred and its originalMinter is still the recipient
\* of the claim.
C19_Witness ==
    /\ result.op = "transferFrom"
    /\ result.err = ""
    /\ \E k \in DOMAIN storage.tokenOwner :
          /\ storage.originalMinter[k] = "alice"
          /\ storage.tokenOwner[k] = "bob"

(***************************************************************************)
(* C20: in the rarity contract, where the caller supplies tokenId, a       *)
(* redeemTicket with the owner's signature over the call, on an unclaimed  *)
(* ticket of the valid range with a valid rarity and the seed set, fails   *)
(* with "Invalid ticket/token pair" when tokenId differs from              *)
(* ticketToTokenId(ticketId); every token that exists is the               *)
(* ticketToTokenId of exactly one claimed ticket.                          *)
(***************************************************************************)
C20_TicketTokenCrossCheck ==
    variant = "rarity" =>
        /\ \A x \in RedeemRecipients \X RedeemTicketIds \X TokenIds \X {50} :
              LET exact == Sign(storage.owner, R_digest(x[1], x[2], x[3], x[4]))
                  out == R_redeemTicket(storage, x[1], x[2], x[3], x[4], exact)
                  derived == R_ticketToTokenId(storage, x[2])
              IN /\ (derived.err = "" /\ x[3] # derived.value) => out.err # ""
                 /\ (/\ derived.err = ""
                     /\ x[3] # derived.value
                     /\ ~storage.claimedTickets[x[2]]
                     /\ x[2] \in ValidTickets(variant)) => out.err = INVALID_PAIR
                 /\ out.err = "" => x[3] = derived.value
        /\ \A k \in Minted(storage) :
              Cardinality({t \in ValidTickets(variant) :
                              /\ storage.claimedTickets[t]
                              /\ R_ticketToTokenId(storage, t).value = k}) = 1

\* With the seed set, a redeemTicket naming another token than the derived
\* one has been rejected.
C20_Witness ==
    /\ variant = "rarity"
    /\ result.op = "redeemTicket"
    /\ result.err = INVALID_PAIR
    /\ storage.shuffleSeed # 0
    /\ ~storage.claimedTickets[result.ticketId]

(***************************************************************************)
(* C21: in the rarity contract a redeemTicket with rarityScore >= 255      *)
(* never succeeds, so it leaves the ticket unclaimed, and on a ticket that *)
(* passes the two checks before it (unclaimed, in range) it fails with     *)
(* "Invalid rarity score".  rarity[tokenId] is below 255 for every token   *)
(* and 0 for a token that does not exist; a successful claim mints a token *)
(* that did not exist and stores its rarityScore for that token and no     *)
(* other, and neither setSeed nor a transfer writes rarity.                *)
(***************************************************************************)
C21_RarityBound ==
    variant = "rarity" =>
        /\ \A x \in RedeemRecipients \X RedeemTicketIds \X TokenIds \X {UINT8_MAX, UINT8_MAX + 1} :
              \A g \in R_Signatures(x[1], x[2], x[3], x[4]) :
                 LET out == R_redeemTicket(storage, x[1], x[2], x[3], x[4], g)
                 IN /\ out.err # ""
                    /\ (~storage.claimedTickets[x[2]] /\ x[2] < MAX_SUPPLY) => out.err = INVALID_RARITY
        /\ (result.op = "redeemTicket" /\ result.err = INVALID_RARITY) =>
              ~storage.claimedTickets[result.ticketId]
        /\ \A k \in TokenIds :
              /\ storage.rarity[k] < UINT8_MAX
              /\ k \notin Minted(storage) => storage.rarity[k] = 0
        /\ \A x \in RedeemRecipients \X RedeemTicketIds \X TokenIds \X RarityScores :
              \A g \in R_Signatures(x[1], x[2], x[3], x[4]) :
                 LET out == R_redeemTicket(storage, x[1], x[2], x[3], x[4], g)
                 IN out.err = "" =>
                       /\ x[3] \notin Minted(storage)
                       /\ Minted(out.post) = Minted(storage) \cup {x[3]}
                       /\ out.post.rarity = [storage.rarity EXCEPT ![x[3]] = x[4]]
        /\ \A sender \in Senders, h \in BlockHashes :
              R_setSeed(storage, sender, h).post.rarity = storage.rarity
        /\ \A sender \in TransferSenders, to \in TransferRecipients, k \in TokenIds :
              transferFrom(storage, sender, to, k).post.rarity = storage.rarity

\* Two tokens exist with different rarity scores and a claim with rarity 255
\* has been rejected.
C21_Witness ==
    /\ variant = "rarity"
    /\ result.op = "redeemTicket"
    /\ result.err = INVALID_RARITY
    /\ \E k, j \in Minted(storage) :
          /\ storage.rarity[k] = 50
          /\ storage.rarity[j] = UINT8_MAX - 1

\* tokenURI of the deployed contract.
tokenURI(v, s, tokenId) ==
    IF v = "allowlist" THEN A_tokenURI(s, tokenId)
    ELSE IF v = "rarity" THEN R_tokenURI(s, tokenId)
    ELSE B_tokenURI(s, tokenId)

(***************************************************************************)
(* C22: in every contract a successful claim emits exactly one             *)
(* PermanentURI event, carrying tokenURI(tokenId) and tokenId of the token *)
(* it minted, and a failing call emits none.                               *)
(***************************************************************************)
C22_PermanentURIOnMint ==
    /\ (result.op \in ClaimOps /\ result.err = "") =>
          LET k == ticketToTokenId(variant, storage, result.batch, result.ticketId).value
          IN /\ k \in Minted(storage)
             /\ result.events = <<PermanentURI(tokenURI(variant, storage, k).value, k)>>
    /\ result.err # "" => result.events = NoEvents
    /\ \A out \in ClaimOutcomes(variant, storage) : out.err # "" => out.events = NoEvents

(***************************************************************************)
(* C23 as stated: the owner's addBatch(batch, commitment, supply) succeeds *)
(* exactly when batch = nextBatch, the cumulative supply stays within      *)
(* MAX_SUPPLY and the commitment is neither zero nor the hash of the empty *)
(* string; the first of the three that fails decides the message,          *)
(* "Invalid batch", "Supply will exceed maximum", "URI cannot be empty";   *)
(* a success increases nextBatch by 1.                                     *)
(***************************************************************************)
C23_AddBatchAsStated ==
    variant = "batch" =>
        \A batch \in BatchIds, c \in Commitments, supply \in Supplies :
           LET out == B_addBatch(storage, storage.owner, batch, c, supply)
               next == batch = storage.nextBatch
               fits == B_totalAvailableSupply(storage) + supply <= MAX_SUPPLY
               named == c # ZERO_HASH /\ c # keccak256(EmptyString)
           IN /\ out.err = "" <=> (next /\ fits /\ named)
              /\ ~next => out.err = INVALID_BATCH
              /\ (next /\ ~fits) => out.err = SUPPLY_EXCEEDS
              /\ (next /\ fits /\ ~named) => out.err = URI_EMPTY
              /\ out.err = "" => out.post.nextBatch = storage.nextBatch + 1

(***************************************************************************)
(* C23 amended: as above, except that when the cumulative supply does not  *)
(* fit uint256 the sum itself fails, with the arithmetic panic 0x11, in    *)
(* place of "Supply will exceed maximum".  A success writes the commitment *)
(* and the supply of the new batch and increases nextBatch by 1; no step   *)
(* changes the commitment or the supply of a batch below nextBatch, and    *)
(* nextBatch never decreases.                                              *)
(***************************************************************************)
C23_AppendOnlyBatches ==
    /\ [](variant = "batch" =>
            \A batch \in BatchIds, c \in Commitments, supply \in Supplies :
               LET out == B_addBatch(storage, storage.owner, batch, c, supply)
                   next == batch = storage.nextBatch
                   sum == B_totalAvailableSupply(storage) + supply
                   named == c # ZERO_HASH /\ c # keccak256(EmptyString)
               IN /\ out.err = "" <=> (next /\ sum <= MAX_SUPPLY /\ named)
                  /\ ~next => out.err = INVALID_BATCH
                  /\ (next /\ sum >= UINT256_RANGE) => out.err = PANIC_ARITH
                  /\ (next /\ sum > MAX_SUPPLY /\ sum < UINT256_RANGE) => out.err = SUPPLY_EXCEEDS
                  /\ (next /\ sum <= MAX_SUPPLY /\ ~named) => out.err = URI_EMPTY
                  /\ out.err = "" =>
                        /\ out.post.nextBatch = storage.nextBatch + 1
                        /\ out.post.baseTokenURICommitments[batch] = c
                        /\ out.post.batchSupply[batch] = supply)
    /\ [][variant = "batch" =>
             /\ storage'.nextBatch >= storage.nextBatch
             /\ storage'.nextBatch # storage.nextBatch =>
                   /\ result'.op = "addBatch"
                   /\ result'.err = ""
                   /\ result'.batch = storage.nextBatch
                   /\ storage'.nextBatch = storage.nextBatch + 1
             /\ \A b \in BatchIds :
                   b < storage.nextBatch =>
                      /\ storage'.baseTokenURICommitments[b] = storage.baseTokenURICommitments[b]
                      /\ storage'.batchSupply[b] = storage.batchSupply[b]]_vars

\* With one batch added, the owner's addBatch of the next batch with a supply
\* that takes the sum out of uint256 has failed with the arithmetic panic.
C23_Witness ==
    /\ variant = "batch"
    /\ storage.nextBatch = 1
    /\ storage.batchSupply[0] > 0
    /\ result.op = "addBatch"
    /\ result.sender = storage.owner
    /\ result.batch = 1
    /\ result.err = PANIC_ARITH

(***************************************************************************)
(* C24: in every state of the multi-batch contract the supplies of the     *)
(* added batches (those below nextBatch) sum to at most MAX_SUPPLY, and    *)
(* batchSupply is 0 for every batch at or above nextBatch.                 *)
(***************************************************************************)
C24_CumulativeSupply ==
    variant = "batch" =>
        /\ B_totalAvailableSupply(storage) <= MAX_SUPPLY
        /\ \A b \in BatchIds : b >= storage.nextBatch => storage.batchSupply[b] = 0
        /\ \A b \in BatchIds : storage.batchSupply[b] <= MAX_SUPPLY

\* One batch of supply 2 is added, and the owner's addBatch of a second batch
\* that would take the sum past MAX_SUPPLY has been rejected.
C24_Witness ==
    /\ variant = "batch"
    /\ storage.nextBatch = 1
    /\ storage.batchSupply[0] = 2
    /\ storage.batchSupply[1] = 0
    /\ result.op = "addBatch"
    /\ result.batch = 1
    /\ result.err = SUPPLY_EXCEEDS

(***************************************************************************)
(* C25: in the multi-batch contract a successful redeemTicket of batch b   *)
(* mints the one token (b << 16) | localId with localId < 2^16, for which  *)
(* tokenIdToBatch gives b back, and emits that token's URI built on the    *)
(* base path of batch b.  In every state each token that exists is the     *)
(* ticketToTokenId of a claimed ticket of the batch tokenIdToBatch names   *)
(* and of no ticket of another batch, and its tokenURI starts with that    *)
(* batch's base path.                                                      *)
(***************************************************************************)
C25_TokenIdNamespacing ==
    variant = "batch" =>
        /\ \A b \in BatchIds, localId \in 0 .. MAX_SUPPLY :
              /\ B_batchToTokenId(b, localId) = b * Pow2(BATCH_SHIFT) + localId
              /\ B_tokenIdToBatch(B_batchToTokenId(b, localId)) = b
              /\ \A c \in BatchIds, otherId \in 0 .. MAX_SUPPLY :
                    B_batchToTokenId(b, localId) = B_batchToTokenId(c, otherId) =>
                       (b = c /\ localId = otherId)
        /\ \A x \in RedeemRecipients \X BatchIds \X RedeemTicketIds :
              LET out == B_redeemTicket(storage, x[1], x[2], x[3],
                                        Sign(storage.owner, B_digest(x[1], x[2], x[3])))
                  new == Minted(out.post) \ Minted(storage)
              IN out.err = "" =>
                    /\ Cardinality(new) = 1
                    /\ \A k \in new :
                          /\ k - x[2] * Pow2(BATCH_SHIFT) >= 0
                          /\ k - x[2] * Pow2(BATCH_SHIFT) < Pow2(BATCH_SHIFT)
                          /\ k - x[2] * Pow2(BATCH_SHIFT) < storage.batchSupply[x[2]]
                          /\ B_tokenIdToBatch(k) = x[2]
                          /\ out.events = <<PermanentURI(storage.baseTokenURIs[x[2]]
                                                \o <<ToString(k)>> \o <<".json">>, k)>>
        /\ \A k \in Minted(storage) :
              LET b == B_tokenIdToBatch(k)
              IN /\ b \in BatchIds
                 /\ \E t \in ValidTickets(variant) :
                       /\ storage.claimedTickets[b][t]
                       /\ B_ticketToTokenId(storage, b, t) = Value(k)
                 /\ \A c \in BatchIds \ {b}, t \in ValidTickets(variant) :
                       storage.claimedTickets[c][t] => B_ticketToTokenId(storage, c, t) # Value(k)
                 /\ B_tokenURI(storage, k)
                       = Value(storage.baseTokenURIs[b] \o <<ToString(k)>> \o <<".json">>)

\* Tokens of two batches exist.
C25_Witness ==
    /\ variant = "batch"
    /\ result.op = "redeemTicket"
    /\ result.err = ""
    /\ \E k, j \in Minted(storage) :
          /\ B_tokenIdToBatch(k) = 0
          /\ B_tokenIdToBatch(j) = 1
          /\ storage.baseTokenURIs[0] # storage.baseTokenURIs[1]

\* The base paths the deployed contract stores.
BasePaths(v, s) ==
    IF v = "batch" THEN {s.baseTokenURIs[b] : b \in BatchIds} ELSE {s.baseTokenURI}

(***************************************************************************)
(* C26: in every contract and every state a stored base path that is not   *)
(* empty ends with "/", whether the constructor stored it or a reveal did, *)
(* and a single-collection contract cannot be constructed with an empty    *)
(* base path: its constructor fails with "URI cannot be empty".            *)
(***************************************************************************)
C26_BasePathNormalized ==
    /\ \A u \in BasePaths(variant, storage) : u # EmptyString => u[Len(u)] = "/"
    /\ variant = "allowlist" =>
          /\ A_constructor(OWNER, EmptyString, MerkleRoot(ClaimList)).err = URI_EMPTY
          /\ storage.baseTokenURI # EmptyString
    /\ variant = "rarity" =>
          /\ R_constructor(OWNER, EmptyString).err = URI_EMPTY
          /\ storage.baseTokenURI # EmptyString

\* The operations behind the onlyOwner modifier.
OwnerOps == {"setSeed", "addBatch", "revealBatch"}

(***************************************************************************)
(* C27: setSeed, addBatch and revealBatch called by anyone but the current *)
(* owner fail with "Ownable: caller is not the owner", whatever their      *)
(* arguments and the state, and such a call changes nothing in the         *)
(* storage; claims are never refused for their caller.  The owner is the   *)
(* one the storage names at the time of the call, ownership transfers      *)
(* included.                                                               *)
(***************************************************************************)
C27_OwnerOnly ==
    /\ [](/\ \A sender \in Senders \ {storage.owner} :
                /\ variant = "allowlist" =>
                      \A h \in BlockHashes : A_setSeed(storage, sender, h).err = NOT_OWNER
                /\ variant = "rarity" =>
                      \A h \in BlockHashes : R_setSeed(storage, sender, h).err = NOT_OWNER
                /\ variant = "batch" =>
                      \A b \in BatchIds :
                         /\ \A h \in B_BlockHashes : B_setSeed(storage, sender, b, h).err = NOT_OWNER
                         /\ \A u \in CandidateURIs :
                               B_revealBatch(storage, sender, b, u).err = NOT_OWNER
                         /\ \A c \in Commitments, supply \in Supplies :
                               B_addBatch(storage, sender, b, c, supply).err = NOT_OWNER
          /\ (result.op \in OwnerOps /\ result.sender # storage.owner) => result.err = NOT_OWNER
          /\ result.op \in ClaimOps => result.err # NOT_OWNER)
    /\ [][(result'.op \in OwnerOps /\ result'.sender # storage.owner) =>
             /\ result'.err = NOT_OWNER
             /\ storage' = storage]_vars

\* Ownership has passed to alice, the former owner's setSeed has been refused
\* and the seed is still unset.
C27_Witness ==
    /\ storage.owner = "alice"
    /\ result.op = "setSeed"
    /\ result.sender = OWNER
    /\ result.err = NOT_OWNER
    /\ Seed(variant, storage, result.batch) = 0

(***************************************************************************)
(* C28: a value ticketToTokenId has returned for a ticket (and batch) is   *)
(* the value it returns in every later state: no step that changes the     *)
(* storage changes a value it returns.  A successful claim of the ticket   *)
(* mints the token of that id and no other.                                *)
(***************************************************************************)
C28_StableDerivation ==
    [][storage' # storage =>
          /\ \A b \in Batches(variant), t \in TicketIds :
                LET v == ticketToTokenId(variant, storage, b, t)
                IN v.err = "" => ticketToTokenId(variant, storage', b, t) = v
          /\ (result'.op \in ClaimOps /\ result'.err = "") =>
                LET v == ticketToTokenId(variant, storage, result'.batch, result'.ticketId)
                IN /\ v.err = ""
                   /\ Minted(storage') \ Minted(storage) = {v.value}
                   /\ ticketToTokenId(variant, storage', result'.batch, result'.ticketId) = v]_vars

\* The first ticket has been claimed and the token of the id it is mapped to
\* exists.
C28_Witness ==
    /\ result.op \in ClaimOps
    /\ result.err = ""
    /\ Cardinality(ClaimedTickets(variant, storage)) = 1
    /\ Minted(storage) = {ticketToTokenId(variant, storage, result.batch, result.ticketId).value}

(***************************************************************************)
(* C29: the permutation fails, fatally and without a value, when its       *)
(* length is 0 or its index is not below its length, so ticketToTokenId    *)
(* returns no token id for a ticket whose index lies outside [0, length);  *)
(* this for Shuffle.permute and the two contracts that call it, and for    *)
(* shuffle(i, l, s) of the rarity contract.                                *)
(***************************************************************************)
C29_PreconditionEnforcement ==
    /\ \A idx \in 0 .. MAX_SUPPLY + 1, len \in 0 .. MAX_SUPPLY, seed \in 1 .. UINT32_RANGE - 1 :
          (len = 0 \/ idx >= len) =>
             /\ variant # "rarity" => permute(idx, len, seed).err = PANIC_ASSERT_PERMUTE
             /\ variant = "rarity" => R_shuffle(idx, len, seed).err # ""
    /\ variant = "allowlist" =>
          \A t \in TicketIds :
             ~(t - 1 >= 0 /\ t - 1 < MAX_SUPPLY) => A_ticketToTokenId(storage, t).err # ""
    /\ variant = "rarity" =>
          \A t \in TicketIds :
             ~(t < MAX_SUPPLY) => R_ticketToTokenId(storage, t).err # ""
    /\ variant = "batch" =>
          \A b \in BatchIds, t \in TicketIds :
             ~(t < storage.batchSupply[b]) => B_ticketToTokenId(storage, b, t).err # ""

R_CheckFailures ==
    {ALREADY_CLAIMED, R_INVALID_TICKET, INVALID_RARITY, INVALID_SIGNATURE, SEED_NOT_SET, INVALID_PAIR}
B_CheckFailures ==
    {NOT_REVEALED, ALREADY_CLAIMED, INVALID_TICKET, INVALID_SIGNATURE, SEED_NOT_SET}

(***************************************************************************)
(* C31 as stated: in both contracts that take a signature, when several    *)
(* failure conditions hold at once redeemTicket reports the first of       *)
(* "Ticket already claimed", "Invalid ticket id", "Invalid rarity score",  *)
(* "Invalid signature", "Seed not set yet", "Invalid ticket/token pair";   *)
(* an invalid signature is reported as such while the seed is unset.       *)
(***************************************************************************)
C31_PrecedenceAsStated ==
    /\ variant = "rarity" =>
          \A x \in RedeemRecipients \X RedeemTicketIds \X TokenIds \X RarityScores :
             \A g \in R_Signatures(x[1], x[2], x[3], x[4]) :
                LET err == R_redeemTicket(storage, x[1], x[2], x[3], x[4], g).err
                IN IF storage.claimedTickets[x[2]] THEN err = ALREADY_CLAIMED
                   ELSE IF ~(x[2] < MAX_SUPPLY) THEN err = R_INVALID_TICKET
                   ELSE IF x[4] >= UINT8_MAX THEN err = INVALID_RARITY
                   ELSE IF g # Sign(storage.owner, R_digest(x[1], x[2], x[3], x[4]))
                        THEN err = INVALID_SIGNATURE
                   ELSE IF storage.shuffleSeed = 0 THEN err = SEED_NOT_SET
                   ELSE IF x[3] # R_ticketToTokenId(storage, x[2]).value THEN err = INVALID_PAIR
                   ELSE err \notin R_CheckFailures
    /\ variant = "batch" =>
          \A x \in RedeemRecipients \X BatchIds \X RedeemTicketIds :
             \A g \in B_Signatures(x[1], x[2], x[3]) :
                LET err == B_redeemTicket(storage, x[1], x[2], x[3], g).err
                IN IF storage.claimedTickets[x[2]][x[3]] THEN err = ALREADY_CLAIMED
                   ELSE IF ~(x[3] < MAX_SUPPLY) THEN err = INVALID_TICKET
                   ELSE IF g # Sign(storage.owner, B_digest(x[1], x[2], x[3]))
                        THEN err = INVALID_SIGNATURE
                   ELSE IF storage.shuffleSeeds[x[2]] = 0 THEN err = SEED_NOT_SET
                   ELSE err \notin {ALREADY_CLAIMED, INVALID_TICKET, INVALID_SIGNATURE, SEED_NOT_SET}

(***************************************************************************)
(* C31 amended: the rarity contract reports in exactly that order.  The    *)
(* multi-batch contract first reports "Collection not revealed yet" for an *)
(* unrevealed batch, whatever the ticket and the signature, and for a      *)
(* revealed batch the first of "Ticket already claimed", "Invalid ticket   *)
(* id", "Invalid signature"; a revealed batch has its seed set, so with    *)
(* the seed unset it reports "Collection not revealed yet" and never       *)
(* "Invalid signature" or "Seed not set yet".                              *)
(***************************************************************************)
C31_CheckPrecedence ==
    /\ variant = "rarity" =>
          \A x \in RedeemRecipients \X RedeemTicketIds \X TokenIds \X RarityScores :
             \A g \in R_Signatures(x[1], x[2], x[3], x[4]) :
                LET err == R_redeemTicket(storage, x[1], x[2], x[3], x[4], g).err
                IN IF storage.claimedTickets[x[2]] THEN err = ALREADY_CLAIMED
                   ELSE IF ~(x[2] < MAX_SUPPLY) THEN err = R_INVALID_TICKET
                   ELSE IF x[4] >= UINT8_MAX THEN err = INVALID_RARITY
                   ELSE IF g # Sign(storage.owner, R_digest(x[1], x[2], x[3], x[4]))
                        THEN err = INVALID_SIGNATURE
                   ELSE IF storage.shuffleSeed = 0 THEN err = SEED_NOT_SET
                   ELSE IF x[3] # R_ticketToTokenId(storage, x[2]).value THEN err = INVALID_PAIR
                   ELSE err \notin R_CheckFailures
    /\ variant = "batch" =>
          \A x \in RedeemRecipients \X BatchIds \X RedeemTicketIds :
             \A g \in B_Signatures(x[1], x[2], x[3]) :
                LET err == B_redeemTicket(storage, x[1], x[2], x[3], g).err
                IN /\ IF storage.baseTokenURIs[x[2]] = EmptyString THEN err = NOT_REVEALED
                      ELSE IF storage.claimedTickets[x[2]][x[3]] THEN err = ALREADY_CLAIMED
                      ELSE IF ~(x[3] < MAX_SUPPLY) THEN err = INVALID_TICKET
                      ELSE IF g # Sign(storage.owner, B_digest(x[1], x[2], x[3]))
                           THEN err = INVALID_SIGNATURE
                      ELSE err \notin B_CheckFailures
                   /\ storage.shuffleSeeds[x[2]] = 0 => err = NOT_REVEALED

\* In the rarity contract a call with an invalid rarity score has been rejected
\* for its rarity while the seed was unset.
C31_Witness ==
    /\ variant = "rarity"
    /\ storage.shuffleSeed = 0
    /\ result.op = "redeemTicket"
    /\ result.err = INVALID_RARITY

\* The calls of a transaction in the order they were entered: the outer
\* claim, then the claims nested in it.
CallChain(r) ==
    <<[batch |-> r.batch, ticketId |-> r.ticketId, err |-> r.err]>> \o r.nested
\* The calls of a chain that returned without failing.
Succeeded(chain) == {i \in 1 .. Len(chain) : chain[i].err = ""}

(***************************************************************************)
(* C32: the claimed flag is written before the mint calls the recipient,   *)
(* so a claim of a ticket made from inside the callback of a claim of the  *)
(* same ticket, at any depth, fails with "Ticket already claimed"; every   *)
(* transaction mints exactly one token per claim in it that succeeded,     *)
(* each for a different ticket claimed by that transaction, and            *)
(* totalSupply equals the number of claimed tickets and never exceeds      *)
(* MAX_SUPPLY.                                                             *)
(***************************************************************************)
C32_ReentrancySafety ==
    /\ [](/\ totalSupply(storage) <= MAX_SUPPLY
          /\ totalSupply(storage) = Cardinality(ClaimedTickets(variant, storage))
          /\ "nested" \in DOMAIN result =>
                LET chain == CallChain(result)
                IN \A i \in 2 .. Len(chain) :
                      (\E j \in 1 .. i - 1 : /\ chain[j].batch = chain[i].batch
                                             /\ chain[j].ticketId = chain[i].ticketId)
                      => chain[i].err = ALREADY_CLAIMED)
    /\ [][("nested" \in DOMAIN result') =>
             LET chain == CallChain(result')
                 minted == Minted(storage') \ Minted(storage)
                 claimed == ClaimedTickets(variant, storage') \ ClaimedTickets(variant, storage)
             IN /\ Minted(storage) \subseteq Minted(storage')
                /\ result'.err # "" => storage' = storage
                /\ result'.err = "" =>
                      /\ Cardinality(minted) = Cardinality(Succeeded(chain))
                      /\ claimed = {<<chain[i].batch, chain[i].ticketId>> : i \in Succeeded(chain)}
                      /\ Cardinality(claimed) = Cardinality(Succeeded(chain))]_vars

\* A claim succeeded although its recipient claimed the same ticket again from
\* inside the callback: the nested claim failed with "Ticket already claimed"
\* and was caught.
C32_Witness ==
    /\ "nested" \in DOMAIN result
    /\ result.op \in ClaimOps
    /\ result.err = ""
    /\ Len(result.nested) >= 1
    /\ result.nested[1].batch = result.batch
    /\ result.nested[1].ticketId = result.ticketId
    /\ result.nested[1].err = ALREADY_CLAIMED
    /\ totalSupply(storage) >= 1

\* What the multi-batch contract stores for one batch.
BatchState(s, b) ==
    [seed |-> s.shuffleSeeds[b], basePath |-> s.baseTokenURIs[b],
     commitment |-> s.baseTokenURICommitments[b], supply |-> s.batchSupply[b],
     claimed |-> s.claimedTickets[b]]

(***************************************************************************)
(* C33: setSeed(b), revealBatch(b, .) and redeemTicket(., b, ., .) leave   *)
(* the seed, base path, commitment, supply and claimed tickets of every    *)
(* other batch unchanged; addBatch leaves the seed, base path and claimed  *)
(* tickets of every batch added before it unchanged.                       *)
(***************************************************************************)
C33_BatchIndependence ==
    [][(variant = "batch" /\ storage' # storage) =>
          /\ result'.op \in {"setSeed", "revealBatch", "redeemTicket"} =>
                \A b \in BatchIds \ {result'.batch} :
                   BatchState(storage', b) = BatchState(storage, b)
          /\ result'.op = "addBatch" =>
                \A b \in BatchIds :
                   b < storage.nextBatch =>
                      /\ storage'.shuffleSeeds[b] = storage.shuffleSeeds[b]
                      /\ storage'.baseTokenURIs[b] = storage.baseTokenURIs[b]
                      /\ storage'.claimedTickets[b] = storage.claimedTickets[b]]_vars

\* A ticket of one batch has been claimed while the other batch has its own
\* seed, base path and a claimed ticket.
C33_Witness ==
    /\ variant = "batch"
    /\ result.op = "redeemTicket"
    /\ result.err = ""
    /\ \E b \in BatchIds \ {result.batch} :
          /\ storage.shuffleSeeds[b] # 0
          /\ storage.baseTokenURIs[b] # EmptyString
          /\ \E t \in TicketIds : storage.claimedTickets[b][t]

\* The claimed tickets of batch b and the tokens minted from it.
B_ClaimedOfBatch(s, b) == {t \in TicketIds : s.claimedTickets[b][t]}
B_MintedOfBatch(s, b) == {k \in Minted(s) : B_tokenIdToBatch(k) = b}

C35_CommitBeforeSeed ==
    variant = "batch" =>
        /\ \A b \in BatchIds : storage.shuffleSeeds[b] # 0 => b < storage.nextBatch
        /\ (result.op = "addBatch" /\ result.err = "") =>
              \A b \in BatchIds : storage.shuffleSeeds[b] # 0 => b < result.batch

(***************************************************************************)
(* C36: the assertion of the multi-batch sanitizeBaseURI is never failed.  *)
(* No stored commitment is the hash of the empty path, so a revealBatch    *)
(* call that carries the empty path fails an earlier check, the            *)
(* commitment check at the latest, and no call passes the commitment       *)
(* check and fails the assertion.                                          *)
(***************************************************************************)
C36_SanitizeAssertUnreachable ==
    variant = "batch" =>
        /\ result.err # PANIC_ASSERT_SANITIZE
        /\ \A b \in BatchIds :
              /\ storage.baseTokenURICommitments[b] # keccak256(EmptyString)
              /\ b >= storage.nextBatch => storage.baseTokenURICommitments[b] = ZERO_HASH
              /\ \A sender \in Senders :
                    /\ \A u \in CandidateURIs :
                          B_revealBatch(storage, sender, b, u).err # PANIC_ASSERT_SANITIZE
                    /\ B_revealBatch(storage, sender, b, EmptyString).err
                          \in {NOT_OWNER, SEED_NOT_SET, ALREADY_REVEALED, COMMITMENT_MISMATCH}

\* The owner's reveal of an added, seeded, unrevealed batch has failed the
\* commitment check, as its reveal with the empty path does.
C36_Witness ==
    /\ variant = "batch"
    /\ result.op = "revealBatch"
    /\ result.err = COMMITMENT_MISMATCH
    /\ result.batch < storage.nextBatch
    /\ storage.shuffleSeeds[result.batch] # 0
    /\ Len(storage.baseTokenURIs[result.batch]) = 0
    /\ B_revealBatch(storage, storage.owner, result.batch, EmptyString).err = COMMITMENT_MISMATCH

(***************************************************************************)
(* C37: redeemTicket checks the signature against the owner at the time    *)
(* of the call.  Once ownership has been transferred, on a ticket that     *)
(* passes the checks made before the signature check, the previous         *)
(* owner's signature over the call fails with "Invalid signature" and the  *)
(* new owner's signature passes the check, the claim succeeding when the   *)
(* ticket is of the collection, its token is not minted yet and the        *)
(* recipient is not the zero address.                                      *)
(* A transfer of ownership changes nothing but the owner, and a claimed    *)
(* ticket stays claimed.                                                   *)
(***************************************************************************)
C37_SignerIsCurrentOwner ==
    /\ [](/\ variant = "rarity" =>
                \A x \in RedeemRecipients \X RedeemTicketIds \X TokenIds \X (RarityScores \ {UINT8_MAX}) :
                   \A a \in Signers :
                      LET out == R_redeemTicket(storage, x[1], x[2], x[3], x[4],
                                                Sign(a, R_digest(x[1], x[2], x[3], x[4])))
                      IN (~storage.claimedTickets[x[2]] /\ x[2] < MAX_SUPPLY) =>
                            /\ a # storage.owner => out.err = INVALID_SIGNATURE
                            /\ a = storage.owner =>
                                  /\ out.err # INVALID_SIGNATURE
                                  /\ (/\ storage.shuffleSeed # 0
                                      /\ x[3] = R_ticketToTokenId(storage, x[2]).value
                                      /\ storage.tokenOwner[x[3]] = ZERO_ADDRESS
                                      /\ x[1] # ZERO_ADDRESS) => out.err = ""
          /\ variant = "batch" =>
                \A x \in RedeemRecipients \X BatchIds \X RedeemTicketIds :
                   \A a \in Signers :
                      LET out == B_redeemTicket(storage, x[1], x[2], x[3],
                                                Sign(a, B_digest(x[1], x[2], x[3])))
                      IN (/\ Len(storage.baseTokenURIs[x[2]]) # 0
                          /\ ~storage.claimedTickets[x[2]][x[3]]
                          /\ x[3] < MAX_SUPPLY) =>
                            /\ a # storage.owner => out.err = INVALID_SIGNATURE
                            /\ a = storage.owner =>
                                  /\ out.err # INVALID_SIGNATURE
                                  /\ (/\ x[3] < storage.batchSupply[x[2]]
                                      /\ storage.tokenOwner[B_ticketToTokenId(storage, x[2], x[3]).value]
                                            = ZERO_ADDRESS
                                      /\ x[1] # ZERO_ADDRESS) => out.err = "")
    /\ [][/\ ClaimedTickets(variant, storage) \subseteq ClaimedTickets(variant, storage')
          /\ (result'.op = "transferOwnership" /\ result'.err = "") =>
                storage' = [storage EXCEPT !.owner = storage'.owner]]_vars

\* After ownership went to another account, a ticket has been redeemed with
\* the new owner's signature while an earlier ticket was already claimed.
C37_Witness ==
    /\ variant \in {"rarity", "batch"}
    /\ storage.owner # OWNER
    /\ result.op = "redeemTicket"
    /\ result.err = ""
    /\ Cardinality(ClaimedTickets(variant, storage)) >= 2

(***************************************************************************)
(* C38: lastResult and lastTimestamp of a beacon start at 0 and change     *)
(* only in a fulfilment delivered by the coordinator (RandomnessBeacon) or *)
(* in the owner's setResult (mock), which write the delivered value and    *)
(* the timestamp of the block together.  requestRandomness changes         *)
(* neither and, called by the owner with a LINK balance below the fee,     *)
(* fails with "Insufficient LINK balance".  The coordinator may answer the *)
(* outstanding requests in any order, and lastResult is the value of the   *)
(* fulfilment delivered last, whichever request it answers.                *)
(***************************************************************************)
C38_BeaconWrites ==
    /\ [](/\ result.op = "constructor" => (storage.lastResult = 0 /\ storage.lastTimestamp = 0)
          /\ storage.lastTimestamp = 0 => storage.lastResult = 0
          /\ storage.lastTimestamp <= storage.blockTimestamp
          /\ variant = "beacon" =>
                \A sender \in Senders :
                   LET out == RB_requestRandomness(storage, sender)
                   IN /\ out.post.lastResult = storage.lastResult
                      /\ out.post.lastTimestamp = storage.lastTimestamp
                      /\ storage.linkBalance < storage.fee =>
                            /\ out.err # ""
                            /\ sender = storage.owner => out.err = INSUFFICIENT_LINK)
    /\ [][/\ (storage'.lastResult # storage.lastResult
              \/ storage'.lastTimestamp # storage.lastTimestamp) =>
                /\ result'.err = ""
                /\ \/ /\ variant = "beacon"
                      /\ result'.op = "rawFulfillRandomness"
                      /\ result'.sender = VRF_COORDINATOR
                   \/ /\ variant = "beaconMock"
                      /\ result'.op = "setResult"
                      /\ result'.sender = storage.owner
          /\ (result'.op \in {"rawFulfillRandomness", "setResult"} /\ result'.err = "") =>
                /\ storage'.lastResult = result'.randomness
                /\ storage'.lastTimestamp = storage.blockTimestamp]_vars

\* Two requests were outstanding; the coordinator answered the later one
\* first and has now answered the earlier one, whose value is lastResult.
C38_Witness ==
    /\ variant = "beacon"
    /\ result.op = "rawFulfillRandomness"
    /\ result.err = ""
    /\ result.requestId = 0
    /\ storage.nonce = 2
    /\ storage.outstanding = {}
    /\ storage.lastResult = result.randomness
    /\ storage.lastResult # 0
    /\ storage.lastTimestamp = storage.blockTimestamp

====
